---- MODULE Spec2Model ----
(*****************************************************************************)
(* QuMail key lifecycle and cipher.                                          *)
(*                                                                           *)
(*   SpecCipher         : QuantumEncryption encrypt_message, decrypt_message *)
(*   SpecTwoKeys        : one message under two keys, read with the other    *)
(*   SpecGenerator      : QuantumKeyGenerator.generate_key_with_verification *)
(*   SpecNeon           : NeonKeyManager over the PostgreSQL table           *)
(*   SpecNeonConcurrent : NeonKeyManager, request-parallel callers           *)
(*   SpecNeonLengths    : NeonKeyManager, callers that choose the key length *)
(*   SpecListing        : NeonKeyManager.get_user_keys over stored tables    *)
(*   SpecHeld           : NeonKeyManager over tables holding a shared key    *)
(*   SpecDeleteEndpoint : DELETE /api/key/<key_id> on the Neon store         *)
(*   SpecSend           : send_email, then view_email / get_email of it      *)
(*   SpecLocal          : EmbeddedKeyManager over the SQLite table           *)
(*   SpecRest           : the REST key service (POST /keys, GET, PATCH)      *)
(*   SpecStatusStores   : the REST service and the embedded store, in turn   *)
(*   SpecSweepStores    : the Neon store and the embedded store, in turn     *)
(*                                                                           *)
(* Each specification drives its own variables and leaves the variables of   *)
(* the other components at their initial value.                              *)
(*****************************************************************************)
EXTENDS Integers, Sequences, FiniteSets, TLC

\* ------------------------------------------------------------------ bounds
MaxMsgLen == 2
MaxKeyLen == 3

\* ------------------------------------------------------- common vocabulary
\* the outcome of a call that raised an exception (in place of a byte or
\* code point sequence)
Raise == <<-1>>
\* Python's None (in place of a byte or code point sequence)
None == <<-2>>

Min(a, b) == IF a < b THEN a ELSE b

\* =========================================================================
\*  State
\* =========================================================================
\* cipher engine
VARIABLES
  message,        \* the text to protect
  key,            \* the key material handed to the cipher
  encrypted,      \* what encrypt_message returned
  decrypted,      \* what decrypt_message returned
  cpc,            \* position in the encrypt-then-decrypt sequence
  other_key,      \* a second key, not the one the message was encrypted with
  other_out       \* what encrypt_message returned for the second key

cipherVars == <<message, key, encrypted, decrypted, cpc, other_key, other_out>>

\* Neon key store
VARIABLES
  quantum_keys,   \* committed rows of the table, in insertion order
  primary_key,    \* columns of the table's PRIMARY KEY constraint
  now,            \* wall clock (datetime.utcnow() / CURRENT_TIMESTAMP)
  npc,            \* position of each caller inside its current call
  nloc,           \* arguments and the row read by each caller's current call
  pending,        \* row inserted by a caller's transaction, not yet committed
  nret,           \* the call that returned in the last step, and what it returned
  uuid_count,     \* number of key ids handed out by uuid.uuid4()
  fetched,        \* per key id, number of get_key calls that returned material
  ncalls          \* number of key store calls started so far

neonVars == <<quantum_keys, primary_key, now, npc, nloc, pending, nret,
              uuid_count, fetched, ncalls>>

\* embedded key store
VARIABLES
  local_keys,     \* rows of the SQLite table, in insertion order
  clock,          \* wall clock (datetime.utcnow())
  lock,           \* the thread holding self._lock, 0 when it is free
  lpc,            \* position of each thread inside its current call
  lloc,           \* arguments and the row read by each thread's current call
  lret,           \* the call that returned in the last step, and what it returned
  lkey_count,     \* number of key ids handed out by _generate_key_id
  lcalls          \* number of key store calls started so far

localVars == <<local_keys, clock, lock, lpc, lloc, lret, lkey_count, lcalls>>

\* REST key service
VARIABLES
  rest_keys,      \* rows of the service's quantum_keys table, in insertion order
  rnow,           \* wall clock (datetime.utcnow())
  rret,           \* the request answered in the last step, and the response
  rcalls          \* number of requests served so far

restVars == <<rest_keys, rnow, rret, rcalls>>

\* entropy key generator
VARIABLES
  length_bytes,   \* the requested key length
  protocol,       \* the requested protocol tag
  max_attempts,   \* the requested number of attempts
  entropy,        \* the bytes the random sources deliver
  generated,      \* what generate_key_with_verification returned
  gpc             \* position in the call

genVars == <<length_bytes, protocol, max_attempts, entropy, generated, gpc>>

\* send workflow of the web client
VARIABLES
  wpc,            \* position of the request inside the send workflow
  wf,             \* the request's fields and what its calls returned so far
  outbox,         \* what was handed to the email transport
  wresp,          \* the outcome reported to the sender
  sent_emails,    \* the ciphertext text recorded in email_statistics
  ipfs,           \* the ciphertext text of the document stored on IPFS
  shown           \* what a reader of the stored message was presented with

mailVars == <<sent_emails, ipfs, shown>>

sendVars == <<wpc, wf, outbox, wresp, mailVars>>

\* nothing has been read yet
NoShown == [reader |-> "", source |-> "", text |-> None]

\* the fields of a send request before it is made
NoRequest == [route |-> "", sender |-> "", recipient |-> "", content |-> <<>>,
              key_id |-> 0, key_data |-> None, shared |-> ""]

\* the variables each component leaves alone
exceptCipher == <<neonVars, localVars, restVars, genVars, sendVars>>
exceptNeon == <<cipherVars, localVars, restVars, genVars, sendVars>>
exceptLocal == <<cipherVars, neonVars, restVars, genVars, sendVars>>
exceptRest == <<cipherVars, neonVars, localVars, genVars, sendVars>>
exceptGen == <<cipherVars, neonVars, localVars, restVars, sendVars>>
exceptSend == <<cipherVars, localVars, restVars, genVars>>

\* =========================================================================
\*  Cipher engine: qumail_client/crypto/quantum_encryption.py
\* =========================================================================

\* code points a text message is drawn from: 'A', U+00E9, U+20AC
CodePoints == {65, 233, 8364}
\* byte values key material is drawn from
KeyBytes == {0, 65, 255}

RECURSIVE SeqsUpTo(_, _)
SeqsUpTo(S, n) ==
  IF n = 0 THEN {<<>>}
  ELSE LET shorter == SeqsUpTo(S, n - 1)
       IN  shorter \cup {Append(s, x) : s \in {t \in shorter : Len(t) = n - 1}, x \in S}

Messages == SeqsUpTo(CodePoints, MaxMsgLen)
Keys == SeqsUpTo(KeyBytes, MaxKeyLen)

\* str.encode('utf-8') of one code point (strict: a surrogate raises)
EncodeCodePoint(cp) ==
  IF cp < 128 THEN <<cp>>
  ELSE IF cp < 2048 THEN <<192 + (cp \div 64), 128 + (cp % 64)>>
  ELSE IF cp >= 55296 /\ cp <= 57343 THEN Raise
  ELSE IF cp < 65536
       THEN <<224 + (cp \div 4096), 128 + ((cp \div 64) % 64), 128 + (cp % 64)>>
  ELSE <<240 + (cp \div 262144), 128 + ((cp \div 4096) % 64),
         128 + ((cp \div 64) % 64), 128 + (cp % 64)>>

RECURSIVE Utf8Encode(_)
Utf8Encode(s) ==
  IF s = <<>> THEN <<>>
  ELSE LET h == EncodeCodePoint(Head(s))
           t == Utf8Encode(Tail(s))
       IN  IF h = Raise \/ t = Raise THEN Raise ELSE h \o t

IsCont(b) == b >= 128 /\ b <= 191

\* bytes.decode('utf-8') (strict): the code points, or Raise on a byte
\* sequence that is not well-formed UTF-8
RECURSIVE Utf8Decode(_)
Utf8Decode(bs) ==
  IF bs = <<>> THEN <<>>
  ELSE
    LET b0 == bs[1]
        n  == Len(bs)
        rest(k) == Utf8Decode(SubSeq(bs, k + 1, n))
        cons(cp, k) == LET r == rest(k) IN IF r = Raise THEN Raise ELSE <<cp>> \o r
    IN
      IF b0 < 128 THEN cons(b0, 1)
      ELSE IF b0 >= 194 /\ b0 <= 223
        THEN IF n >= 2 /\ IsCont(bs[2])
             THEN cons((b0 - 192) * 64 + (bs[2] - 128), 2)
             ELSE Raise
      ELSE IF b0 >= 224 /\ b0 <= 239
        THEN IF /\ n >= 3 /\ IsCont(bs[2]) /\ IsCont(bs[3])
                /\ (b0 = 224 => bs[2] >= 160)
                /\ (b0 = 237 => bs[2] <= 159)
             THEN cons((b0 - 224) * 4096 + (bs[2] - 128) * 64 + (bs[3] - 128), 3)
             ELSE Raise
      ELSE IF b0 >= 240 /\ b0 <= 244
        THEN IF /\ n >= 4 /\ IsCont(bs[2]) /\ IsCont(bs[3]) /\ IsCont(bs[4])
                /\ (b0 = 240 => bs[2] >= 144)
                /\ (b0 = 244 => bs[2] <= 143)
             THEN cons((b0 - 240) * 262144 + (bs[2] - 128) * 4096
                       + (bs[3] - 128) * 64 + (bs[4] - 128), 4)
             ELSE Raise
      ELSE Raise

\* a ^ b on two bytes
RECURSIVE BitXor(_, _, _)
BitXor(a, b, n) ==
  IF n = 0 THEN 0
  ELSE ((a + b) % 2) + 2 * BitXor(a \div 2, b \div 2, n - 1)

\* the key byte is left out
Xor_plain(a, b) == a

\* m ^ k
Xor(a, b) == BitXor(a, b, 8)

\* bytes * n
RECURSIVE Repeat(_, _)
Repeat(s, n) == IF n <= 0 THEN <<>> ELSE s \o Repeat(s, n - 1)

\* the key is padded with zero bytes
ExtendKey_zeros(k, n) ==
  IF Len(k) = 0 THEN Raise
  ELSE SubSeq(k \o [i \in 1..n |-> 0], 1, n)

\* (key * ((n // len(key)) + 1))[:n]; ZeroDivisionError on an empty key
ExtendKey(k, n) ==
  IF Len(k) = 0 THEN Raise
  ELSE SubSeq(Repeat(k, (n \div Len(k)) + 1), 1, n)

\* bytes(a ^ b for a, b in zip(data, k)): zip stops at the shorter one
XorZip(data, k) == [i \in 1..Min(Len(data), Len(k)) |-> Xor(data[i], k[i])]

\* QuantumEncryption.encrypt_message(message: str, key: bytes) -> bytes
encrypt_message(m, k) ==
  LET message_bytes == Utf8Encode(m)
  IN  IF message_bytes = Raise THEN Raise
      ELSE LET k2 == IF Len(k) < Len(message_bytes)
                     THEN ExtendKey(k, Len(message_bytes)) ELSE k
           IN  IF k2 = Raise THEN Raise ELSE XorZip(message_bytes, k2)

\* the key is not stretched before the XOR
decrypt_message_nostretch(e, k) == Utf8Decode(XorZip(e, k))

\* QuantumEncryption.decrypt_message(encrypted_data: bytes, key: bytes) -> str
decrypt_message(e, k) ==
  LET k2 == IF Len(k) < Len(e) THEN ExtendKey(k, Len(e)) ELSE k
  IN  IF k2 = Raise THEN Raise ELSE Utf8Decode(XorZip(e, k2))

CipherInit ==
  /\ message \in Messages
  /\ key \in Keys
  /\ encrypted = None
  /\ decrypted = None
  /\ cpc = "start"
  /\ other_key = <<>>
  /\ other_out = None

Encrypt ==
  /\ cpc = "start"
  /\ encrypted' = encrypt_message(message, key)
  /\ cpc' = "encrypted"
  /\ UNCHANGED <<message, key, decrypted, other_key, other_out>>
  /\ UNCHANGED exceptCipher

Decrypt ==
  /\ cpc = "encrypted"
  /\ encrypted # Raise
  /\ decrypted' = decrypt_message(encrypted, key)
  /\ cpc' = "decrypted"
  /\ UNCHANGED <<message, key, encrypted, other_key, other_out>>
  /\ UNCHANGED exceptCipher

CipherNext == Encrypt \/ Decrypt

MaxOtherKeyLen == 2

\* the second keys that are tried
OtherKeys == SeqsUpTo({65, 255}, MaxOtherKeyLen)

\* one message, the key it is encrypted with and a second key
TwoKeysInit ==
  /\ message \in Messages
  /\ key \in Keys
  /\ other_key \in OtherKeys
  /\ encrypted = None
  /\ decrypted = None
  /\ other_out = None
  /\ cpc = "start"

\* encrypt_message(message, other_key)
EncryptOther ==
  /\ cpc = "encrypted"
  /\ other_out' = encrypt_message(message, other_key)
  /\ cpc' = "encrypted_twice"
  /\ UNCHANGED <<message, key, encrypted, decrypted, other_key>>
  /\ UNCHANGED exceptCipher

\* decrypt_message(encrypted, other_key): the ciphertext made with key is
\* decrypted with the second key
DecryptOther ==
  /\ cpc = "encrypted_twice"
  /\ encrypted # Raise
  /\ decrypted' = decrypt_message(encrypted, other_key)
  /\ cpc' = "decrypted_other"
  /\ UNCHANGED <<message, key, encrypted, other_key, other_out>>
  /\ UNCHANGED exceptCipher

TwoKeysNext == Encrypt \/ EncryptOther \/ DecryptOther

\* =========================================================================
\*  Entropy key generator: key_manager/quantum/key_generator.py
\* =========================================================================
MaxGenLen == 2
MaxGenAttempts == 2

\* self.quantum_protocols
QuantumProtocols == {"BB84", "B92", "SARG04", "E91"}
\* protocol tags a caller may pass: the supported ones and one that is not
ProtocolTags == QuantumProtocols \cup {"XX"}
\* byte values the random sources deliver
GenBytes == {0, 255}
\* requested lengths, the negative one included
GenLengths == -1..MaxGenLen
GenAttempts == 0..MaxGenAttempts

\* the byte strings of length n (none for a negative n)
GenKeysOfLen(n) == IF n < 0 THEN {<<>>} ELSE [1..n -> GenBytes]

\* _generate_secure_random_bytes(length): secrets.token_bytes rejects a
\* negative length; otherwise the mixed bytes, here the bytes drawn
generate_secure_random_bytes(length, drawn) ==
  IF length < 0 THEN Raise ELSE drawn

\* _simulate_bb84 divides by len(key_bytes) * 8 (line 134); the other
\* protocols do not. The simulated channel noise is part of the bytes drawn.
simulate_protocol(tag, key_bytes) ==
  IF tag = "BB84" /\ Len(key_bytes) = 0 THEN Raise ELSE key_bytes

\* _measure_entropy_quality(key_bytes): 0.0 for the empty key; for any other
\* key some byte count is positive and probability.bit_length() is looked up
\* on a float, which has no such attribute (line 244): AttributeError
measure_entropy_quality(key_bytes) ==
  IF Len(key_bytes) = 0 THEN 0 ELSE -1

\* QuantumKeyGenerator.generate_quantum_key(length_bytes, protocol): the key
\* bytes, or Raise (lines 45-70)
gen_generate_quantum_key(length, tag, drawn) ==
  IF tag \notin QuantumProtocols THEN Raise
  ELSE LET base == generate_secure_random_bytes(length, drawn)
       IN  IF base = Raise THEN Raise
           ELSE LET key_bytes == simulate_protocol(tag, base)
                IN  IF key_bytes = Raise THEN Raise
                    ELSE IF measure_entropy_quality(key_bytes) < 0 THEN Raise
                    ELSE key_bytes

Bit(b, i) == (b \div (2 ^ i)) % 2
\* the bits of the key, least significant bit of each byte first
Bits(key_bytes) ==
  [n \in 1..(8 * Len(key_bytes)) |-> Bit(key_bytes[((n - 1) \div 8) + 1], (n - 1) % 8)]
Abs(x) == IF x < 0 THEN -x ELSE x
RECURSIVE SumOver(_, _)
SumOver(f, S) ==
  IF S = {} THEN 0 ELSE LET x == CHOOSE y \in S : TRUE IN f[x] + SumOver(f, S \ {x})

\* verify_key_randomness(key_bytes): Raise, or whether all tests passed
\* (lines 253-291); the tests are compared in integers
verify_key_randomness(key_bytes) ==
  IF measure_entropy_quality(key_bytes) < 0 THEN Raise
  ELSE LET total_bits == 8 * Len(key_bytes)
           bits == Bits(key_bytes)
           ones == Cardinality({n \in DOMAIN bits : bits[n] = 1})
           runs == Cardinality({n \in DOMAIN bits : n = 1 \/ bits[n] # bits[n - 1]})
           count == [v \in 0..255 |->
                       Cardinality({i \in DOMAIN key_bytes : key_bytes[i] = v})]
           n == Len(key_bytes)
           chi == SumOver([v \in 0..255 |-> (256 * count[v] - n) * (256 * count[v] - n)],
                          0..255)
       IN  IF total_bits = 0 THEN Raise    \* ones / total_bits
           ELSE <<\* entropy_quality > 0.9
                  10 * measure_entropy_quality(key_bytes) > 9
                  \* abs(ones / total_bits - 0.5) < 0.1
                  /\ Abs(10 * ones - 5 * total_bits) < total_bits
                  \* abs(runs - expected_runs) / expected_runs < 0.1
                  /\ 10 * Abs(2 * runs - total_bits) < total_bits
                  \* chi_square < 300
                  /\ chi < 300 * 256 * n>>

\* the attempts of generate_key_with_verification from attempt a on
\* (lines 298-314); draws[a] are the bytes the a-th attempt draws
RECURSIVE Attempts(_, _, _, _, _, _)
Attempts(length, tag, max, draws, a, last) ==
  IF a > max
  THEN \* metadata is unbound when no attempt ran (line 311)
       IF last = None THEN Raise
       ELSE [key_bytes |-> last, verification_passed |-> FALSE,
             generation_attempt |-> max]
  ELSE LET key_bytes == gen_generate_quantum_key(length, tag, draws[a])
       IN  IF key_bytes = Raise THEN Raise
           ELSE LET quality == verify_key_randomness(key_bytes)
                IN  IF quality = Raise THEN Raise
                    ELSE IF quality[1]
                    THEN [key_bytes |-> key_bytes, verification_passed |-> TRUE,
                          generation_attempt |-> a]
                    ELSE Attempts(length, tag, max, draws, a + 1, key_bytes)

\* QuantumKeyGenerator.generate_key_with_verification(length_bytes, protocol,
\* max_attempts): the (bytes, metadata) pair, or Raise
generate_key_with_verification(length, tag, max, draws) ==
  Attempts(length, tag, max, draws, 1, None)

\* a call with any length, protocol tag, number of attempts and random bytes
GenInit ==
  /\ length_bytes \in GenLengths
  /\ protocol \in ProtocolTags
  /\ max_attempts \in GenAttempts
  /\ entropy \in [1..max_attempts -> GenKeysOfLen(length_bytes)]
  /\ generated = None
  /\ gpc = "start"

GenerateWithVerification ==
  /\ gpc = "start"
  /\ generated' = generate_key_with_verification(length_bytes, protocol,
                                                 max_attempts, entropy)
  /\ gpc' = "done"
  /\ UNCHANGED <<length_bytes, protocol, max_attempts, entropy>>
  /\ UNCHANGED exceptGen

GenNext == GenerateWithVerification

\* =========================================================================
\*  Neon key store: qumail_client/embedded_km/neon_key_manager.py
\*  over the PostgreSQL table quantum_keys (READ COMMITTED transactions)
\* =========================================================================

\* ------------------------------------------------------------------ bounds
MaxKeys == 1
MaxTime == 2
MaxFetch == 2
MaxCalls == 3
NumCallers == 2
\* the configured time to live of a key, in clock ticks
KeyExpiryTicks == 1

\* config.MIN_KEY_LENGTH, MAX_KEY_LENGTH, DEFAULT_KEY_LENGTH, QUANTUM_PROTOCOL
MIN_KEY_LENGTH == 64
MAX_KEY_LENGTH == 4096
DEFAULT_KEY_LENGTH == 256
QUANTUM_PROTOCOL == "BB84"

Users == {"alice", "bob"}
Callers == 1..NumCallers
\* key ids: 0 is an id that no generate call ever returned
KeyIds == 0..MaxKeys
\* values secrets.token_bytes() may return
SampleKey == <<65>>
KeyData == {SampleKey, <<255>>}
\* byte of the at-rest key derived from KM_SECRET_KEY
AtRestKeyByte == 90
FernetVersion == 128

PK_KEY_ID == "key_id"
PK_KEY_ID_USER_ID == "key_id,user_id"

\* self.cipher_suite.encrypt(key_data), as stored in key_data_encrypted
FernetEncrypt(data) ==
  <<FernetVersion>> \o [i \in 1..Len(data) |-> Xor(data[i], AtRestKeyByte)]

\* self.cipher_suite.decrypt(token); InvalidToken on anything else
FernetDecrypt(token) ==
  IF Len(token) >= 1 /\ token[1] = FernetVersion
  THEN [i \in 1..(Len(token) - 1) |-> Xor(token[i + 1], AtRestKeyByte)]
  ELSE Raise

NoArgs == [key_id |-> 0, user_id |-> "", other |-> "", row |-> <<>>]
NoRet == [op |-> "", caller |-> 0, key_id |-> 0, user_id |-> "", other |-> "",
          val |-> "", key_data |-> None, count |-> 0, keys |-> <<>>]

Ret(op, k, u, o, val, data, cnt) ==
  [op |-> op, caller |-> 0, key_id |-> k, user_id |-> u, other |-> o, val |-> val,
   key_data |-> data, count |-> cnt, keys |-> <<>>]

\* rows of the table with this key id, whoever holds them
RowsOf_anyholder(tbl, k, u) == {i \in DOMAIN tbl : tbl[i].key_id = k}

\* rows of the table with this key id and this holder
RowsOf(tbl, k, u) == {i \in DOMAIN tbl : tbl[i].key_id = k /\ tbl[i].user_id = u}

MinOf(S) == CHOOSE x \in S : \A y \in S : x <= y

\* the table accepts any row: no uniqueness is enforced
ViolatesPrimaryKey_none(tbl, row, pkc) == FALSE

\* would inserting row break the table's PRIMARY KEY constraint
ViolatesPrimaryKey(tbl, row, pkc) ==
  \E i \in DOMAIN tbl :
    /\ tbl[i].key_id = row.key_id
    /\ (pkc = PK_KEY_ID \/ tbl[i].user_id = row.user_id)

\* a plain INSERT: a conflicting row is a unique violation
ShareInsertOutcome_plain(tbl, pend, self, row, pkc) ==
  IF ViolatesPrimaryKey(tbl, row, pkc) THEN "raise"
  ELSE IF \E q \in DOMAIN pend : q # self /\ pend[q] # <<>>
            /\ ViolatesPrimaryKey(pend[q], row, pkc) THEN "wait"
  ELSE "insert"

\* INSERT ... ON CONFLICT (key_id, user_id) DO NOTHING
\*   "raise"   no unique constraint on exactly (key_id, user_id): the
\*             statement is rejected whatever the table holds
\*   "nothing" a committed row with the same (key_id, user_id) exists
\*   "wait"    another transaction holds an uncommitted row with that identity
\*   "insert"  the row is added to this transaction
ShareInsertOutcome(tbl, pend, self, row, pkc) ==
  IF pkc # PK_KEY_ID_USER_ID THEN "raise"
  ELSE IF ViolatesPrimaryKey(tbl, row, pkc) THEN "nothing"
  ELSE IF \E q \in DOMAIN pend : q # self /\ pend[q] # <<>>
            /\ ViolatesPrimaryKey(pend[q], row, pkc) THEN "wait"
  ELSE "insert"

\* _init_database on an empty database: CREATE TABLE IF NOT EXISTS
\* quantum_keys (key_id VARCHAR(255) PRIMARY KEY, ...)
NeonInit ==
  /\ quantum_keys = <<>>
  /\ primary_key = PK_KEY_ID
  /\ now = 0
  /\ npc = [p \in Callers |-> "idle"]
  /\ nloc = [p \in Callers |-> NoArgs]
  /\ pending = [p \in Callers |-> <<>>]
  /\ nret = NoRet
  /\ uuid_count = 0
  /\ fetched = [k \in KeyIds |-> 0]
  /\ ncalls = 0

\* a caller enters a key store operation
StartCall(p) ==
  /\ npc[p] = "idle"
  /\ ncalls < MaxCalls
  /\ ncalls' = ncalls + 1

Return(p, r) ==
  /\ nret' = [r EXCEPT !.caller = p]
  /\ npc' = [npc EXCEPT ![p] = "idle"]
  /\ nloc' = [nloc EXCEPT ![p] = NoArgs]

\* migrate_keys_table.migrate_database: DROP CONSTRAINT quantum_keys_pkey,
\* ADD PRIMARY KEY (key_id, user_id). ALTER TABLE waits for open transactions.
migrate_database ==
  /\ \A p \in Callers : npc[p] = "idle"
  /\ primary_key' = PK_KEY_ID_USER_ID
  /\ nret' = NoRet
  /\ UNCHANGED <<quantum_keys, now, npc, nloc, pending, uuid_count, fetched, ncalls>>
  /\ UNCHANGED exceptNeon

\* NeonKeyManager.generate_quantum_key(user_id, recipient)
generate_quantum_key_stmts(p, u, r, data) ==
  /\ StartCall(p)
  /\ uuid_count < MaxKeys
  /\ LET key_id == uuid_count + 1
         row == [key_id |-> key_id, user_id |-> u, recipient |-> r,
                 key_data_encrypted |-> FernetEncrypt(data),
                 created_at |-> now, expires_at |-> now + KeyExpiryTicks,
                 is_active |-> TRUE, usage_count |-> 0,
                 key_length |-> DEFAULT_KEY_LENGTH]
     IN  /\ uuid_count' = key_id
         /\ IF ViolatesPrimaryKey(quantum_keys, row, primary_key)
            THEN /\ quantum_keys' = quantum_keys
                 /\ Return(p, Ret("generate", key_id, u, r, "raise", None, 0))
            ELSE /\ quantum_keys' = Append(quantum_keys, row)
                 /\ Return(p, Ret("generate", key_id, u, r, "dict", data, 0))
  /\ UNCHANGED <<primary_key, now, pending, fetched>>

\* the call made on its own, outside the send workflow
generate_quantum_key(p, u, r, data) ==
  /\ generate_quantum_key_stmts(p, u, r, data)
  /\ UNCHANGED exceptNeon

\* the lengths a caller asks NeonKeyManager.generate_quantum_key for
NeonKeyLengths == {-1, 0, 1, MIN_KEY_LENGTH, MAX_KEY_LENGTH + 1}

\* secrets.token_bytes(key_length) (line 214): ValueError for a negative
\* length, no bytes for length 0, else key_length random bytes, which data
\* stands for
TokenBytes(key_length, data) ==
  IF key_length < 0 THEN Raise ELSE IF key_length = 0 THEN <<>> ELSE data

\* NeonKeyManager.generate_quantum_key(user_id, recipient, key_length=n): the
\* length is passed to secrets.token_bytes and stored as it is (lines 210-241)
generate_quantum_key_of_length(p, u, r, key_length, data) ==
  /\ StartCall(p)
  /\ uuid_count < MaxKeys
  /\ LET key_data == TokenBytes(key_length, data)
     IN  IF key_data = Raise
         THEN /\ Return(p, Ret("generate", 0, u, r, "raise", None, key_length))
              /\ UNCHANGED <<quantum_keys, uuid_count>>
         ELSE LET key_id == uuid_count + 1
                  row == [key_id |-> key_id, user_id |-> u, recipient |-> r,
                          key_data_encrypted |-> FernetEncrypt(key_data),
                          created_at |-> now, expires_at |-> now + KeyExpiryTicks,
                          is_active |-> TRUE, usage_count |-> 0,
                          key_length |-> key_length]
              IN  /\ uuid_count' = key_id
                  /\ IF ViolatesPrimaryKey(quantum_keys, row, primary_key)
                     THEN /\ quantum_keys' = quantum_keys
                          /\ Return(p, Ret("generate", key_id, u, r, "raise", None,
                                           key_length))
                     ELSE /\ quantum_keys' = Append(quantum_keys, row)
                          /\ Return(p, Ret("generate", key_id, u, r, "dict", key_data,
                                           key_length))
  /\ UNCHANGED <<primary_key, now, pending, fetched>>
  /\ UNCHANGED exceptNeon

\* the expiry test of get_key is left out
Expired_never(row, t) == FALSE

\* row['expires_at'] and datetime.utcnow() > row['expires_at']
Expired(row, t) == t > row.expires_at

\* SELECT ... WHERE key_id = %s AND user_id = %s AND is_active = TRUE
SelectActive(tbl, k, u) == {i \in RowsOf(tbl, k, u) : tbl[i].is_active}

\* what get_key(key_id, user_id) finds on this table at time t (lines
\* 281-298): None, the decrypted key material, or Raise
GetKeyOutcome(tbl, k, u, t) ==
  LET found == SelectActive(tbl, k, u)
  IN  IF found = {} THEN None
      ELSE IF Expired(tbl[MinOf(found)], t) THEN None
      ELSE FernetDecrypt(tbl[MinOf(found)].key_data_encrypted)

\* NeonKeyManager.get_key, up to the decryption of the row (lines 279-298)
get_key_select(p, k, u) ==
  /\ StartCall(p)
  /\ fetched[k] + Cardinality({q \in Callers : npc[q] = "get_update" /\ nloc[q].key_id = k})
       < MaxFetch
  /\ LET out == GetKeyOutcome(quantum_keys, k, u, now)
     IN  IF out = None
         THEN Return(p, Ret("get_key", k, u, "", "None", None, 0))
         ELSE IF out = Raise
         THEN Return(p, Ret("get_key", k, u, "", "raise", None, 0))
         ELSE /\ npc' = [npc EXCEPT ![p] = "get_update"]
              /\ nloc' = [nloc EXCEPT ![p] =
                    [key_id |-> k, user_id |-> u, other |-> "",
                     row |-> <<quantum_keys[MinOf(SelectActive(quantum_keys, k, u))]>>]]
              /\ nret' = NoRet
  /\ UNCHANGED <<quantum_keys, primary_key, now, pending, uuid_count, fetched>>
  /\ UNCHANGED exceptNeon

\* the new count is computed from the row read by the SELECT
IncrementUsage_stale(tbl, k, read) ==
  [i \in DOMAIN tbl |->
     IF tbl[i].key_id = k
     THEN [tbl[i] EXCEPT !.usage_count = read.usage_count + 1]
     ELSE tbl[i]]

\* UPDATE quantum_keys SET usage_count = usage_count + 1 WHERE key_id = %s
IncrementUsage(tbl, k, read) ==
  [i \in DOMAIN tbl |->
     IF tbl[i].key_id = k
     THEN [tbl[i] EXCEPT !.usage_count = @ + 1]
     ELSE tbl[i]]

\* NeonKeyManager.get_key, the UPDATE, the commit and the return (lines
\* 300-320). The row lock taken by the UPDATE is held until the commit, so
\* the two are one step for every other transaction.
get_key_update(p) ==
  /\ npc[p] = "get_update"
  /\ LET row == nloc[p].row[1]
         k == nloc[p].key_id
     IN  /\ quantum_keys' = IncrementUsage(quantum_keys, k, row)
         /\ fetched' = [fetched EXCEPT ![k] = @ + 1]
         /\ Return(p, Ret("get_key", k, nloc[p].user_id, "", "dict",
                          FernetDecrypt(row.key_data_encrypted), row.usage_count + 1))
  /\ UNCHANGED <<primary_key, now, pending, uuid_count, ncalls>>
  /\ UNCHANGED exceptNeon

\* NeonKeyManager.delete_key(key_id, user_id)
delete_key(p, k, u) ==
  /\ StartCall(p)
  /\ LET hit == RowsOf(quantum_keys, k, u)
     IN  /\ quantum_keys' = [i \in DOMAIN quantum_keys |->
                               IF i \in hit
                               THEN [quantum_keys[i] EXCEPT !.is_active = FALSE]
                               ELSE quantum_keys[i]]
         /\ Return(p, Ret("delete_key", k, u, "",
                          IF hit # {} THEN "True" ELSE "False", None, Cardinality(hit)))
  /\ UNCHANGED <<primary_key, now, pending, uuid_count, fetched>>
  /\ UNCHANGED exceptNeon

\* the sweep also takes the rows that expire at this very instant
ExpiredActiveRows_inclusive(tbl, t) ==
  {i \in DOMAIN tbl : tbl[i].expires_at <= t /\ tbl[i].is_active}

\* WHERE expires_at < CURRENT_TIMESTAMP AND is_active = TRUE (line 502)
ExpiredActiveRows(tbl, t) ==
  {i \in DOMAIN tbl : tbl[i].expires_at < t /\ tbl[i].is_active}

\* NeonKeyManager.cleanup_expired_keys()
cleanup_expired_keys(p) ==
  /\ StartCall(p)
  /\ LET hit == ExpiredActiveRows(quantum_keys, now)
     IN  /\ quantum_keys' = [i \in DOMAIN quantum_keys |->
                               IF i \in hit
                               THEN [quantum_keys[i] EXCEPT !.is_active = FALSE]
                               ELSE quantum_keys[i]]
         /\ Return(p, Ret("cleanup", 0, "", "", "count", None, Cardinality(hit)))
  /\ UNCHANGED <<primary_key, now, pending, uuid_count, fetched>>
  /\ UNCHANGED exceptNeon

\* NeonKeyManager.share_key_with_recipient, the SELECT of the owner's row
\* (lines 446-459)
share_select_stmts(p, k, sender_id, recipient_id) ==
  /\ StartCall(p)
  /\ LET found == SelectActive(quantum_keys, k, sender_id)
     IN  IF found = {}
         THEN Return(p, Ret("share", k, sender_id, recipient_id, "False", None, 0))
         ELSE /\ npc' = [npc EXCEPT ![p] = "share_insert"]
              /\ nloc' = [nloc EXCEPT ![p] =
                    [key_id |-> k, user_id |-> sender_id, other |-> recipient_id,
                     row |-> <<quantum_keys[MinOf(found)]>>]]
              /\ nret' = NoRet
  /\ UNCHANGED <<quantum_keys, primary_key, now, pending, uuid_count, fetched>>

\* the call made on its own, outside the send workflow
share_select(p, k, sender_id, recipient_id) ==
  /\ share_select_stmts(p, k, sender_id, recipient_id)
  /\ UNCHANGED exceptNeon

\* the row share_key_with_recipient inserts for the recipient (lines 469-479);
\* created_at, is_active and usage_count take the column defaults
SharedRow(l, t) ==
  [key_id |-> l.key_id, user_id |-> l.other, recipient |-> l.user_id,
   key_data_encrypted |-> l.row[1].key_data_encrypted,
   created_at |-> t, expires_at |-> l.row[1].expires_at,
   is_active |-> TRUE, usage_count |-> 0,
   key_length |-> l.row[1].key_length]

\* NeonKeyManager.share_key_with_recipient, the INSERT (lines 463-479); an
\* exception is caught at line 485 and the call returns False
share_insert_stmts(p) ==
  /\ npc[p] = "share_insert"
  /\ LET l == nloc[p]
         row == SharedRow(l, now)
         outcome == ShareInsertOutcome(quantum_keys, pending, p, row, primary_key)
     IN  /\ outcome # "wait"
         /\ IF outcome = "raise"
            THEN /\ Return(p, Ret("share", l.key_id, l.user_id, l.other, "False", None, 0))
                 /\ pending' = pending
            ELSE /\ npc' = [npc EXCEPT ![p] = "share_commit"]
                 /\ pending' = [pending EXCEPT ![p] =
                                  IF outcome = "insert" THEN <<row>> ELSE <<>>]
                 /\ nret' = NoRet
                 /\ UNCHANGED nloc
  /\ UNCHANGED <<quantum_keys, primary_key, now, uuid_count, fetched, ncalls>>

\* the call made on its own, outside the send workflow
share_insert(p) ==
  /\ share_insert_stmts(p)
  /\ UNCHANGED exceptNeon

\* NeonKeyManager.share_key_with_recipient, conn.commit() and return True
\* (lines 481-483)
share_commit_stmts(p) ==
  /\ npc[p] = "share_commit"
  /\ quantum_keys' = quantum_keys \o pending[p]
  /\ pending' = [pending EXCEPT ![p] = <<>>]
  /\ Return(p, Ret("share", nloc[p].key_id, nloc[p].user_id, nloc[p].other,
                   "True", None, Len(pending[p])))
  /\ UNCHANGED <<primary_key, now, uuid_count, fetched, ncalls>>

\* the call made on its own, outside the send workflow
share_commit(p) ==
  /\ share_commit_stmts(p)
  /\ UNCHANGED exceptNeon

\* ORDER BY created_at DESC over the rows with the indices in S (rows with
\* equal created_at in table order)
RECURSIVE OrderByCreatedDesc(_, _)
OrderByCreatedDesc(tbl, S) ==
  IF S = {} THEN <<>>
  ELSE LET newest == {i \in S : \A j \in S : tbl[j].created_at <= tbl[i].created_at}
           first == MinOf(newest)
       IN  <<first>> \o OrderByCreatedDesc(tbl, S \ {first})

\* get_user_keys leaves the filter on is_active and expires_at out
UserKeyRows_unfiltered(tbl, u, include_expired, t) ==
  {i \in DOMAIN tbl : tbl[i].user_id = u}

\* the WHERE clauses of get_user_keys (lines 340-358)
UserKeyRows(tbl, u, include_expired, t) ==
  {i \in DOMAIN tbl : /\ tbl[i].user_id = u
                       /\ (include_expired \/ (tbl[i].is_active /\ tbl[i].expires_at > t))}

\* NeonKeyManager.get_user_keys(user_id, include_expired): the list of key
\* dictionaries, each with the decrypted key_data (None when decryption fails)
get_user_keys(tbl, u, include_expired, t) ==
  LET order == OrderByCreatedDesc(tbl, UserKeyRows(tbl, u, include_expired, t))
  IN  [n \in 1..Len(order) |->
         LET row == tbl[order[n]]
             data == FernetDecrypt(row.key_data_encrypted)
         IN  [key_id |-> row.key_id, user_id |-> row.user_id,
              key_data |-> IF data = Raise THEN None ELSE data,
              created_at |-> row.created_at, expires_at |-> row.expires_at,
              usage_count |-> row.usage_count, is_active |-> row.is_active,
              expired |-> t > row.expires_at]]

\* a call of NeonKeyManager.get_user_keys(user_id, include_expired)
list_user_keys(p, u, include_expired) ==
  /\ StartCall(p)
  /\ Return(p, [Ret("get_user_keys", 0, u, "",
                    IF include_expired THEN "all" ELSE "usable", None, 0)
                  EXCEPT !.keys = get_user_keys(quantum_keys, u, include_expired, now)])
  /\ UNCHANGED <<quantum_keys, primary_key, now, pending, uuid_count, fetched>>
  /\ UNCHANGED exceptNeon

MaxListRows == 3

\* a row as generate_quantum_key's INSERT writes it at time t (lines 228-250)
NeonRow(k, u, r, data, t) ==
  [key_id |-> k, user_id |-> u, recipient |-> r,
   key_data_encrypted |-> FernetEncrypt(data),
   created_at |-> t, expires_at |-> t + KeyExpiryTicks,
   is_active |-> TRUE, usage_count |-> 0, key_length |-> DEFAULT_KEY_LENGTH]

\* tables of up to MaxListRows keys generated one per clock tick under one
\* setting of KEY_EXPIRY_HOURS (read from the environment, line 218), some of
\* them deleted or swept since
ListTables ==
  UNION {{[i \in 1..n |->
             [NeonRow(i, owner[i], CHOOSE r \in Users : r # owner[i], SampleKey,
                      i - 1) EXCEPT !.is_active = active[i],
                                    !.expires_at = i - 1 + expiry]] :
            owner \in [1..n -> Users], active \in [1..n -> BOOLEAN],
            expiry \in 1..MaxListRows} :
         n \in 0..MaxListRows}

\* the key store some time after these keys were generated
ListingInit ==
  /\ quantum_keys \in ListTables
  /\ primary_key = PK_KEY_ID
  /\ now \in 0..MaxTime
  /\ \A i \in DOMAIN quantum_keys : quantum_keys[i].created_at <= now
  /\ npc = [p \in Callers |-> "idle"]
  /\ nloc = [p \in Callers |-> NoArgs]
  /\ pending = [p \in Callers |-> <<>>]
  /\ nret = NoRet
  /\ uuid_count = Len(quantum_keys)
  /\ fetched = [k \in KeyIds |-> 0]
  /\ ncalls = 0

ListingNext ==
  \E u \in Users, include_expired \in BOOLEAN : list_user_keys(1, u, include_expired)

\* for key in user_keys: if key.get('key_id') == key_id: ... break
\* (app.py lines 576-590 and 1074-1083): the key_data of the first match
FindDecryptionKey(user_keys, k) ==
  LET hits == {n \in DOMAIN user_keys : user_keys[n].key_id = k}
  IN  IF hits = {} THEN None ELSE user_keys[MinOf(hits)].key_data

\* app.view_email: the session user u opens a message whose key id is k; the
\* key is looked up with get_user_keys(u, include_expired=True)
view_email(p, u, k) ==
  /\ StartCall(p)
  /\ LET decryption_key == FindDecryptionKey(get_user_keys(quantum_keys, u, TRUE, now), k)
     IN  Return(p, Ret("view_email", k, u, "",
                       IF decryption_key = None THEN "key not found" ELSE "decrypt",
                       decryption_key, 0))
  /\ UNCHANGED <<quantum_keys, primary_key, now, pending, uuid_count, fetched>>
  /\ UNCHANGED exceptNeon

\* app.get_email (GET /api/email/<id>): the same lookup for a sent message
get_email(p, u, k) ==
  /\ StartCall(p)
  /\ LET encryption_key_data == FindDecryptionKey(get_user_keys(quantum_keys, u, TRUE, now), k)
     IN  Return(p, Ret("get_email", k, u, "",
                       IF encryption_key_data = None THEN "key not found" ELSE "decrypt",
                       encryption_key_data, 0))
  /\ UNCHANGED <<quantum_keys, primary_key, now, pending, uuid_count, fetched>>
  /\ UNCHANGED exceptNeon

\* the wall clock advances
Tick ==
  /\ now < MaxTime
  /\ now' = now + 1
  /\ nret' = NoRet
  /\ UNCHANGED <<quantum_keys, primary_key, npc, nloc, pending,
                 uuid_count, fetched, ncalls>>
  /\ UNCHANGED exceptNeon

\* one caller at a time: every call runs to its return before the next starts
NeonNext ==
  \/ migrate_database
  \/ Tick
  \/ \E u \in Users : \E r \in Users \ {u}, data \in KeyData : generate_quantum_key(1, u, r, data)
  \/ \E k \in KeyIds, u \in Users : get_key_select(1, k, u)
  \/ get_key_update(1)
  \/ \E k \in KeyIds, u \in Users : delete_key(1, k, u)
  \/ cleanup_expired_keys(1)
  \/ \E u \in Users, k \in KeyIds : view_email(1, u, k)
  \/ \E u \in Users, k \in KeyIds : get_email(1, u, k)
  \/ \E k \in KeyIds, a \in Users, b \in Users : share_select(1, k, a, b)
  \/ share_insert(1)
  \/ share_commit(1)

\* the migrated table some time after key 1 was generated by its owner and,
\* possibly, shared with the recipient; each row deleted since or not
HeldBy(u, r) ==
  LET own == NeonRow(1, u, r, SampleKey, 0)
      got == SharedRow([key_id |-> 1, user_id |-> u, other |-> r, row |-> <<own>>], 0)
  IN  {<<[own EXCEPT !.is_active = a]>> : a \in BOOLEAN}
      \cup {<<[own EXCEPT !.is_active = a], [got EXCEPT !.is_active = b]>> :
              a \in BOOLEAN, b \in BOOLEAN}

HeldTables ==
  {<<>>} \cup UNION {HeldBy(q[1], q[2]) : q \in {x \in Users \X Users : x[1] # x[2]}}

HeldInit ==
  /\ quantum_keys \in HeldTables
  /\ primary_key = PK_KEY_ID_USER_ID
  /\ now = 0
  /\ npc = [p \in Callers |-> "idle"]
  /\ nloc = [p \in Callers |-> NoArgs]
  /\ pending = [p \in Callers |-> <<>>]
  /\ nret = NoRet
  /\ uuid_count = IF quantum_keys = <<>> THEN 0 ELSE 1
  /\ fetched = [k \in KeyIds |-> 0]
  /\ ncalls = 0

\* the calls that write to quantum_keys, one caller at a time
HeldNext ==
  \/ Tick
  \/ \E u \in Users : \E r \in Users \ {u} : generate_quantum_key(1, u, r, SampleKey)
  \/ \E k \in KeyIds, u \in Users : get_key_select(1, k, u)
  \/ get_key_update(1)
  \/ \E k \in KeyIds, u \in Users : delete_key(1, k, u)
  \/ cleanup_expired_keys(1)
  \/ \E k \in KeyIds, a \in Users, b \in Users : share_select(1, k, a, b)
  \/ share_insert(1)
  \/ share_commit(1)

\* result['success'] (app.py line 1257): delete_key returns a bool, and a bool
\* cannot be subscripted
Subscript(result, field) ==
  IF result \in {"True", "False"} THEN "TypeError" ELSE result

\* DELETE /api/key/<key_id> (app.py lines 1248-1266): 401 without a session;
\* else key_manager.delete_key(key_id, session['user_id']) runs, and any
\* exception of the handler is answered with 500
delete_key_endpoint(p, k, user_email, in_session) ==
  /\ StartCall(p)
  /\ IF ~in_session
     THEN /\ quantum_keys' = quantum_keys
          /\ Return(p, Ret("delete_key_endpoint", k, user_email, "", "401", None, 0))
     ELSE LET hit == RowsOf(quantum_keys, k, user_email)
              result == IF hit # {} THEN "True" ELSE "False"
              success == Subscript(result, "success")
          IN  /\ quantum_keys' = [i \in DOMAIN quantum_keys |->
                                    IF i \in hit
                                    THEN [quantum_keys[i] EXCEPT !.is_active = FALSE]
                                    ELSE quantum_keys[i]]
              /\ Return(p, Ret("delete_key_endpoint", k, user_email, "",
                               IF success = "TypeError" THEN "500"
                               ELSE IF success = "True" THEN "200" ELSE "500",
                               None, Cardinality(hit)))
  /\ UNCHANGED <<primary_key, now, pending, uuid_count, fetched>>
  /\ UNCHANGED exceptNeon

\* the key pages' calls: keys are deleted through the endpoint
DeleteEndpointNext ==
  \/ Tick
  \/ \E k \in KeyIds, u \in Users, in_session \in BOOLEAN :
       delete_key_endpoint(1, k, u, in_session)
  \/ \E k \in KeyIds, u \in Users : get_key_select(1, k, u)
  \/ get_key_update(1)

\* callers that choose the key length themselves
NeonLengthsNext ==
  \/ Tick
  \/ \E u \in Users : \E r \in Users \ {u}, n \in NeonKeyLengths :
       generate_quantum_key_of_length(1, u, r, n, SampleKey)
  \/ \E k \in KeyIds, u \in Users : get_key_select(1, k, u)
  \/ get_key_update(1)
  \/ \E k \in KeyIds, u \in Users : delete_key(1, k, u)

\* request-parallel callers: the statements of concurrent calls interleave;
\* the keys are alice's, composed for bob, and the races are over their rows,
\* not over their material
NeonConcurrentNext ==
  \/ migrate_database
  \/ Tick
  \/ \E p \in Callers : generate_quantum_key(p, "alice", "bob", <<65>>)
  \/ \E p \in Callers, k \in KeyIds, u \in Users : get_key_select(p, k, u)
  \/ \E p \in Callers : get_key_update(p)
  \/ \E p \in Callers, k \in KeyIds, u \in Users : delete_key(p, k, u)
  \/ \E p \in Callers : cleanup_expired_keys(p)
  \/ \E p \in Callers, k \in KeyIds, a \in Users, b \in Users : share_select(p, k, a, b)
  \/ \E p \in Callers : share_insert(p)
  \/ \E p \in Callers : share_commit(p)

\* =========================================================================
\*  Send workflow: qumail_client/app.py (compose, POST /api/send_email), on
\*  the Neon key store
\* =========================================================================

Routes == {"compose", "send_email"}

\* the message texts a sender submits
Contents == {<<65>>, <<233>>}

\* where a request goes after share_key_with_recipient, only on a successful
\* share
AfterShare_abort(val) == IF val = "True" THEN "deliver" ELSE "done"

\* where a request goes after share_key_with_recipient: the return value is
\* not looked at and an exception is logged (compose lines 410-418,
\* send_email lines 890-900)
AfterShare(val) == "deliver"

\* bytes.hex(): two lower-case hexadecimal digits per byte, as character codes
HexDigit(v) == IF v < 10 THEN 48 + v ELSE 87 + v

RECURSIVE Hex(_)
Hex(bs) ==
  IF bs = <<>> THEN <<>>
  ELSE <<HexDigit(Head(bs) \div 16), HexDigit(Head(bs) % 16)>> \o Hex(Tail(bs))

\* the value of a hexadecimal digit, -1 for any other character
HexVal(c) ==
  IF c >= 48 /\ c <= 57 THEN c - 48
  ELSE IF c >= 97 /\ c <= 102 THEN c - 87
  ELSE IF c >= 65 /\ c <= 70 THEN c - 55
  ELSE -1

\* bytes.fromhex(text): ValueError on a character that is no hexadecimal
\* digit and on an odd number of digits
FromHex(text) ==
  IF Len(text) % 2 = 1 \/ \E n \in DOMAIN text : HexVal(text[n]) = -1 THEN Raise
  ELSE [n \in 1..(Len(text) \div 2) |->
          16 * HexVal(text[2 * n - 1]) + HexVal(text[2 * n])]

\* the base64 alphabet A-Z a-z 0-9 + /, as character codes
B64Char(v) ==
  IF v < 26 THEN 65 + v
  ELSE IF v < 52 THEN 97 + (v - 26)
  ELSE IF v < 62 THEN 48 + (v - 52)
  ELSE IF v = 62 THEN 43 ELSE 47

B64Val(c) ==
  IF c >= 65 /\ c <= 90 THEN c - 65
  ELSE IF c >= 97 /\ c <= 122 THEN c - 97 + 26
  ELSE IF c >= 48 /\ c <= 57 THEN c - 48 + 52
  ELSE IF c = 43 THEN 62
  ELSE IF c = 47 THEN 63
  ELSE -1

InB64(c) == B64Val(c) # -1

IsPad(c) == c = 61

\* base64.b64encode(bs).decode(): four characters for every three bytes, the
\* last group padded with '='
RECURSIVE B64Encode(_)
B64Encode(bs) ==
  IF bs = <<>> THEN <<>>
  ELSE IF Len(bs) = 1
  THEN <<B64Char(bs[1] \div 4), B64Char((bs[1] % 4) * 16), 61, 61>>
  ELSE IF Len(bs) = 2
  THEN <<B64Char(bs[1] \div 4), B64Char((bs[1] % 4) * 16 + (bs[2] \div 16)),
         B64Char((bs[2] % 16) * 4), 61>>
  ELSE <<B64Char(bs[1] \div 4), B64Char((bs[1] % 4) * 16 + (bs[2] \div 16)),
         B64Char((bs[2] % 16) * 4 + (bs[3] \div 64)), B64Char(bs[3] % 64)>>
       \o B64Encode(SubSeq(bs, 4, Len(bs)))

\* the bytes of a run of base64 digits whose length is not 1 modulo 4
RECURSIVE B64Bytes(_)
B64Bytes(d) ==
  IF Len(d) < 2 THEN <<>>
  ELSE LET v(n) == B64Val(d[n])
           b1 == v(1) * 4 + (v(2) \div 16)
       IN  IF Len(d) = 2 THEN <<b1>>
           ELSE LET b2 == (v(2) % 16) * 16 + (v(3) \div 4)
                IN  IF Len(d) = 3 THEN <<b1, b2>>
                    ELSE <<b1, b2, (v(3) % 4) * 64 + v(4)>>
                         \o B64Bytes(SubSeq(d, 5, Len(d)))

\* base64.b64decode(text), not validating: characters outside the alphabet
\* are discarded, and binascii.Error is raised when the digits do not fill
\* whole groups and the padding needed is not there
B64Decode(text) ==
  LET digits == SelectSeq(text, InB64)
      npad == Len(SelectSeq(text, IsPad))
      over == Len(digits) % 4
  IN  IF over = 1 \/ (over = 2 /\ npad < 2) \/ (over = 3 /\ npad < 1) THEN Raise
      ELSE B64Bytes(digits)

\* every decoder has failed
AllMethodsFailed == <<-3>>

\* the decoders of get_email (lines 1095-1125) and view_email (lines
\* 605-646): base64, then the text's own bytes, then hexadecimal; the first
\* one whose decrypt_message does not raise is taken
TrialDecode(text, k) ==
  LET b64 == B64Decode(text)
      hex == FromHex(text)
      method1 == IF b64 = Raise THEN Raise ELSE decrypt_message(b64, k)
      method2 == decrypt_message(text, k)
      method3 == IF hex = Raise THEN Raise ELSE decrypt_message(hex, k)
  IN  IF method1 # Raise THEN method1
      ELSE IF method2 # Raise THEN method2
      ELSE IF method3 # Raise THEN method3
      ELSE AllMethodsFailed

\* the form or JSON body arrives; the sender is the session's user
send_request(route, s, r, content) ==
  /\ wpc = "idle"
  /\ \A p \in Callers : npc[p] = "idle"
  /\ wpc' = "generate"
  /\ wf' = [NoRequest EXCEPT !.route = route, !.sender = s, !.recipient = r,
                             !.content = content]
  /\ nret' = NoRet
  /\ UNCHANGED <<outbox, wresp>>
  /\ UNCHANGED <<quantum_keys, primary_key, now, npc, nloc, pending,
                 uuid_count, fetched, ncalls>>
  /\ UNCHANGED mailVars
  /\ UNCHANGED exceptSend

\* key_manager.generate_quantum_key(user_id=sender, recipient=recipient); an
\* exception ends the request with an error (compose line 461, send_email
\* line 902)
send_generate(data) ==
  /\ wpc = "generate"
  /\ generate_quantum_key_stmts(1, wf.sender, wf.recipient, data)
  /\ IF nret'.val = "raise"
     THEN /\ wpc' = "done"
          /\ wresp' = "generate_failed"
          /\ wf' = wf
     ELSE /\ wpc' = "share"
          /\ wresp' = wresp
          /\ wf' = [wf EXCEPT !.key_id = nret'.key_id, !.key_data = nret'.key_data]
  /\ UNCHANGED outbox
  /\ UNCHANGED mailVars
  /\ UNCHANGED exceptSend

\* key_manager.share_key_with_recipient(key_id, sender, recipient), statement
\* by statement; shared records what the call returned
send_share_select ==
  /\ wpc = "share"
  /\ share_select_stmts(1, wf.key_id, wf.sender, wf.recipient)
  /\ IF npc'[1] = "idle"
     THEN /\ wf' = [wf EXCEPT !.shared = nret'.val]
          /\ wpc' = AfterShare(nret'.val)
     ELSE UNCHANGED <<wf, wpc>>
  /\ UNCHANGED <<outbox, wresp>>
  /\ UNCHANGED mailVars
  /\ UNCHANGED exceptSend

send_share_insert ==
  /\ wpc = "share"
  /\ share_insert_stmts(1)
  /\ IF npc'[1] = "idle"
     THEN /\ wf' = [wf EXCEPT !.shared = nret'.val]
          /\ wpc' = AfterShare(nret'.val)
     ELSE UNCHANGED <<wf, wpc>>
  /\ UNCHANGED <<outbox, wresp>>
  /\ UNCHANGED mailVars
  /\ UNCHANGED exceptSend

send_share_commit ==
  /\ wpc = "share"
  /\ share_commit_stmts(1)
  /\ wf' = [wf EXCEPT !.shared = nret'.val]
  /\ wpc' = AfterShare(nret'.val)
  /\ UNCHANGED <<outbox, wresp>>
  /\ UNCHANGED mailVars
  /\ UNCHANGED exceptSend

\* quantum_crypto.encrypt_message(content, key_data); send_email then stores
\* the message on IPFS and gives up if that fails (lines 931-932); the message
\* goes to email_client.send_secure_email, whose result decides what the
\* sender is told (compose lines 443-463, send_email lines 941-1017)
send_deliver(ipfs_ok, transport_ok) ==
  /\ wpc = "deliver"
  /\ LET encrypted_content == encrypt_message(wf.content, wf.key_data)
     IN  IF encrypted_content = Raise
         THEN /\ wresp' = "error"
              /\ outbox' = outbox
              /\ UNCHANGED <<sent_emails, ipfs>>
         ELSE IF wf.route = "send_email" /\ ~ipfs_ok
         THEN /\ wresp' = "ipfs_failed"
              /\ outbox' = outbox
              /\ UNCHANGED <<sent_emails, ipfs>>
         ELSE /\ outbox' = Append(outbox,
                                  [recipient |-> wf.recipient,
                                   encrypted_content |-> encrypted_content,
                                   key_id |-> wf.key_id])
              /\ wresp' = IF transport_ok THEN "sent" ELSE "transport_failed"
              \* email_data['encrypted_content'] = encrypted_content.hex()
              /\ ipfs' = IF wf.route = "send_email" THEN Hex(encrypted_content) ELSE None
              \* record_email_sent(..., base64.b64encode(encrypted_content).decode())
              /\ sent_emails' = IF transport_ok THEN B64Encode(encrypted_content)
                                ELSE None
  /\ wpc' = "done"
  /\ UNCHANGED <<wf, shown>>
  /\ UNCHANGED neonVars
  /\ UNCHANGED exceptSend

\* GET /api/email/<id> by the sender: the ciphertext text comes from the IPFS
\* document when there is one and it can be retrieved, else from the
\* database; the key is looked up with get_user_keys(sender, include_expired
\* = True) (lines 1047-1126)
read_get_email(ipfs_up) ==
  /\ wpc = "done"
  /\ sent_emails # None
  /\ LET from_ipfs == ipfs # None /\ ipfs_up
         encrypted_content == IF from_ipfs THEN ipfs ELSE sent_emails
         encryption_key_data ==
           FindDecryptionKey(get_user_keys(quantum_keys, wf.sender, TRUE, now), wf.key_id)
     IN  shown' = [reader |-> "get_email",
                   source |-> IF from_ipfs THEN "ipfs" ELSE "database",
                   text |-> IF encryption_key_data = None THEN None
                            ELSE TrialDecode(encrypted_content, encryption_key_data)]
  /\ wpc' = "read"
  /\ UNCHANGED <<wf, outbox, wresp, sent_emails, ipfs>>
  /\ UNCHANGED neonVars
  /\ UNCHANGED exceptSend

\* /view_email/<id> by the sender: the ciphertext text is the database
\* record's (lines 563-646)
read_view_email ==
  /\ wpc = "done"
  /\ sent_emails # None
  /\ LET decryption_key ==
           FindDecryptionKey(get_user_keys(quantum_keys, wf.sender, TRUE, now), wf.key_id)
     IN  shown' = [reader |-> "view_email", source |-> "database",
                   text |-> IF decryption_key = None THEN None
                            ELSE TrialDecode(sent_emails, decryption_key)]
  /\ wpc' = "read"
  /\ UNCHANGED <<wf, outbox, wresp, sent_emails, ipfs>>
  /\ UNCHANGED neonVars
  /\ UNCHANGED exceptSend

\* one request at a time, on a table that may or may not have been migrated
SendNext ==
  \/ migrate_database
  \/ Tick
  \/ \E route \in Routes, s \in Users, content \in Contents :
       \E r \in Users \ {s} : send_request(route, s, r, content)
  \/ \E data \in KeyData : send_generate(data)
  \/ send_share_select
  \/ send_share_insert
  \/ send_share_commit
  \/ \E ipfs_ok \in BOOLEAN, transport_ok \in BOOLEAN : send_deliver(ipfs_ok, transport_ok)
  \/ \E ipfs_up \in BOOLEAN : read_get_email(ipfs_up)
  \/ read_view_email

\* =========================================================================
\*  Embedded key store: qumail_client/embedded_km/local_key_manager.py
\*  over the SQLite table quantum_keys (key_id TEXT PRIMARY KEY); every
\*  operation below runs under self._lock of the one process-wide instance
\* =========================================================================

\* ------------------------------------------------------------------ bounds
MaxLocalKeys == 1
MaxClock == 2
MaxLocalCalls == 3
NumThreads == 2
\* config.KEY_EXPIRY_HOURS, in clock ticks
LocalExpiryTicks == 1

Threads == 1..NumThreads
LocalKeyIds == 0..MaxLocalKeys

NoLocalArgs == [key_id |-> 0, user_id |-> ""]
NoLocalRet == [op |-> "", thread |-> 0, key_id |-> 0, user_id |-> "", val |-> "",
               key_bytes |-> None, count |-> 0]

LRet(op, k, u, val, data, cnt) ==
  [op |-> op, thread |-> 0, key_id |-> k, user_id |-> u, val |-> val,
   key_bytes |-> data, count |-> cnt]

\* max_attempts of generate_key_with_verification when the caller passes none
DefaultMaxAttempts == 3
\* requested lengths: none, and below, at and above the limits
KeyLengths == {0, MIN_KEY_LENGTH - 1, MIN_KEY_LENGTH, MAX_KEY_LENGTH,
               MAX_KEY_LENGTH + 1}

\* a row as generate_quantum_key's INSERT writes it (lines 140-156)
LocalRow(k, u, data, t) ==
  [key_id |-> k, encrypted_key_bytes |-> FernetEncrypt(data),
   status |-> "unused", created_for |-> u, used_by |-> "", used_at |-> -1,
   expiry_time |-> t + LocalExpiryTicks, key_length |-> DEFAULT_KEY_LENGTH]

\* the key bytes of the i-th row: random keys of DEFAULT_KEY_LENGTH bytes
\* differ from row to row
LocalKeyBytes(i) == <<64 + i>>

\* the tables the database file may hold when the manager is constructed:
\* up to MaxLocalKeys rows with distinct key ids
LocalTables ==
  UNION {{[i \in 1..n |-> LocalRow(i, owner[i], LocalKeyBytes(i), 0)] :
            owner \in [1..n -> Users]} :
         n \in 0..MaxLocalKeys}

\* EmbeddedKeyManager.__init__ / _initialize_database: CREATE TABLE IF NOT
\* EXISTS keeps the rows of the database file, which outlives the process
LocalInit ==
  /\ local_keys \in LocalTables
  /\ clock = 0
  /\ lock = 0
  /\ lpc = [t \in Threads |-> "idle"]
  /\ lloc = [t \in Threads |-> NoLocalArgs]
  /\ lret = NoLocalRet
  /\ lkey_count = Len(local_keys)
  /\ lcalls = 0

\* the embedded key store is not in use: its database file holds no row
LocalIdle ==
  /\ local_keys = <<>>
  /\ clock = 0
  /\ lock = 0
  /\ lpc = [t \in Threads |-> "idle"]
  /\ lloc = [t \in Threads |-> NoLocalArgs]
  /\ lret = NoLocalRet
  /\ lkey_count = 0
  /\ lcalls = 0

\* the operations do not take the lock
CanAcquire_nolock(l) == TRUE

\* with self._lock: the lock can be taken when no thread holds it
CanAcquire(l) == l = 0

\* a thread enters a key store operation and takes self._lock
LStartCall(t) ==
  /\ lpc[t] = "idle"
  /\ CanAcquire(lock)
  /\ lcalls < MaxLocalCalls
  /\ lcalls' = lcalls + 1

LReturn(t, r) ==
  /\ lret' = [r EXCEPT !.thread = t]
  /\ lpc' = [lpc EXCEPT ![t] = "idle"]
  /\ lloc' = [lloc EXCEPT ![t] = NoLocalArgs]

\* EmbeddedKeyManager.generate_quantum_key: if key_length < MIN_KEY_LENGTH or
\* key_length > MAX_KEY_LENGTH: raise ValueError (lines 113-115)
LengthRejected(key_length) ==
  key_length < MIN_KEY_LENGTH \/ key_length > MAX_KEY_LENGTH

\* EmbeddedKeyManager.generate_quantum_key(user_id, key_length); data stands
\* for the bytes the random sources deliver, a key of the requested length.
\* The exception the call ends with names neither the thread nor the user.
local_generate_quantum_key(t, u, requested, data) ==
  /\ LStartCall(t)
  /\ LET key_length == IF requested = 0 THEN DEFAULT_KEY_LENGTH ELSE requested
         made == IF LengthRejected(key_length) THEN Raise
                 ELSE generate_key_with_verification(
                        key_length, QUANTUM_PROTOCOL, DefaultMaxAttempts,
                        [a \in 1..DefaultMaxAttempts |-> data])
     IN  IF made = Raise
         THEN \* except Exception as e: raise Exception(...)
              /\ UNCHANGED <<local_keys, lkey_count>>
              /\ lret' = LRet("generate", 0, "",
                              IF LengthRejected(key_length) THEN "invalid" ELSE "raise",
                              None, key_length)
              /\ UNCHANGED <<lpc, lloc>>
         ELSE /\ lkey_count < MaxLocalKeys
              /\ lkey_count' = lkey_count + 1
              /\ local_keys' = Append(local_keys,
                     [LocalRow(lkey_count + 1, u, data, clock)
                        EXCEPT !.encrypted_key_bytes = FernetEncrypt(made.key_bytes),
                               !.key_length = key_length])
              /\ LReturn(t, LRet("generate", lkey_count + 1, u, "dict", None, key_length))
  /\ UNCHANGED <<clock, lock>>
  /\ UNCHANGED exceptLocal

\* SELECT * FROM quantum_keys WHERE key_id = ? AND created_for = ?
LocalSelect(tbl, k, u) ==
  {i \in DOMAIN tbl : tbl[i].key_id = k /\ tbl[i].created_for = u}

\* get_quantum_key hands out the key bytes of a row whatever its status
GetQuantumKeyResult_anystatus(tbl, k, u, t) ==
  LET found == LocalSelect(tbl, k, u)
  IN  IF found = {} THEN None
      ELSE FernetDecrypt(tbl[MinOf(found)].encrypted_key_bytes)

\* what get_quantum_key(key_id, user_id) returns on this table at time t: the
\* key bytes, or None (lines 194-229)
GetQuantumKeyResult(tbl, k, u, t) ==
  LET found == LocalSelect(tbl, k, u)
  IN  IF found = {} THEN None
      ELSE LET row == tbl[MinOf(found)]
           IN  IF t > row.expiry_time /\ row.status = "unused" THEN None
               ELSE IF row.status \in {"used", "expired"} THEN None
               ELSE FernetDecrypt(row.encrypted_key_bytes)

\* EmbeddedKeyManager.get_quantum_key, from taking the lock to the return or
\* to the decision to mark the row expired (lines 190-205, 215-229)
local_get_select(t, k, u) ==
  /\ LStartCall(t)
  /\ LET found == LocalSelect(local_keys, k, u)
     IN  IF found # {} /\ clock > local_keys[MinOf(found)].expiry_time
                       /\ local_keys[MinOf(found)].status = "unused"
         THEN /\ lock' = t
              /\ lpc' = [lpc EXCEPT ![t] = "get_expire"]
              /\ lloc' = [lloc EXCEPT ![t] = [key_id |-> k, user_id |-> u]]
              /\ lret' = NoLocalRet
         ELSE /\ lock' = lock
              /\ LET data == GetQuantumKeyResult(local_keys, k, u, clock)
                 IN  LReturn(t, LRet("get_quantum_key", k, u,
                                     IF data = None THEN "None" ELSE "dict", data, 0))
  /\ UNCHANGED <<local_keys, clock, lkey_count>>
  /\ UNCHANGED exceptLocal

\* EmbeddedKeyManager.get_quantum_key: UPDATE quantum_keys SET status =
\* 'expired' WHERE key_id = ?, commit, return None, release (lines 206-213)
local_get_expire(t) ==
  /\ lpc[t] = "get_expire"
  /\ local_keys' = [i \in DOMAIN local_keys |->
                      IF local_keys[i].key_id = lloc[t].key_id
                      THEN [local_keys[i] EXCEPT !.status = "expired"]
                      ELSE local_keys[i]]
  /\ lock' = IF lock = t THEN 0 ELSE lock
  /\ LReturn(t, LRet("get_quantum_key", lloc[t].key_id, lloc[t].user_id, "None", None, 0))
  /\ UNCHANGED <<clock, lkey_count, lcalls>>
  /\ UNCHANGED exceptLocal

\* EmbeddedKeyManager.mark_key_used(key_id, used_by)
local_mark_key_used(t, k, used_by) ==
  /\ LStartCall(t)
  /\ LET hit == {i \in DOMAIN local_keys :
                   local_keys[i].key_id = k /\ local_keys[i].status = "unused"}
     IN  /\ local_keys' = [i \in DOMAIN local_keys |->
                             IF i \in hit
                             THEN [local_keys[i] EXCEPT !.status = "used",
                                     !.used_by = used_by, !.used_at = clock]
                             ELSE local_keys[i]]
         /\ LReturn(t, LRet("mark_key_used", k, used_by,
                            IF hit # {} THEN "True" ELSE "False", None, Cardinality(hit)))
  /\ UNCHANGED <<clock, lock, lkey_count>>
  /\ UNCHANGED exceptLocal

\* EmbeddedKeyManager.cleanup_expired_keys()
local_cleanup_expired_keys(t) ==
  /\ LStartCall(t)
  /\ LET hit == {i \in DOMAIN local_keys :
                   local_keys[i].status = "unused" /\ local_keys[i].expiry_time < clock}
     IN  /\ local_keys' = [i \in DOMAIN local_keys |->
                             IF i \in hit
                             THEN [local_keys[i] EXCEPT !.status = "expired"]
                             ELSE local_keys[i]]
         /\ LReturn(t, LRet("cleanup", 0, "", "count", None, Cardinality(hit)))
  /\ UNCHANGED <<clock, lock, lkey_count>>
  /\ UNCHANGED exceptLocal

\* the wall clock advances
LocalTick ==
  /\ clock < MaxClock
  /\ clock' = clock + 1
  /\ lret' = NoLocalRet
  /\ UNCHANGED <<local_keys, lock, lpc, lloc, lkey_count, lcalls>>
  /\ UNCHANGED exceptLocal

LocalNext ==
  \/ LocalTick
  \/ \E u \in Users, len \in KeyLengths :
       local_generate_quantum_key(1, u, len, SampleKey)
  \/ \E t \in Threads, k \in LocalKeyIds, u \in Users : local_get_select(t, k, u)
  \/ \E t \in Threads : local_get_expire(t)
  \/ \E t \in Threads, k \in LocalKeyIds, u \in Users : local_mark_key_used(t, k, u)
  \/ \E t \in Threads : local_cleanup_expired_keys(t)

\* =========================================================================
\*  REST key service: key_manager/app.py, key_manager/database/operations.py
\* =========================================================================
MaxRestKeys == 2
MaxRestTime == 1
MaxRestCalls == 3

\* the limits POST /keys checks key_length against
RestMinKeyLength == 64
RestMaxKeyLength == 4096
\* requested lengths: below, at and above the limits
RestLengths == {0, RestMinKeyLength - 1, RestMinKeyLength, RestMaxKeyLength,
                RestMaxKeyLength + 1}

\* QuantumKeyService._generate_key_id: the digest of "user:timestamp:length",
\* as the triple it is computed from
RestKeyId(u, t, len) == <<u, t, len>>
\* a key id no generate call returned
RestMissingId == <<"", 0, 0>>
\* key ids a request may name: those handed out, and one that never was
RestRequestIds == {rest_keys[i].key_id : i \in DOMAIN rest_keys} \cup {RestMissingId}

NoRestRet == [op |-> "", key_id |-> RestMissingId, user_id |-> "", val |-> "",
              code |-> 0, key_bytes |-> None]

RestRet(op, k, u, val, code, data) ==
  [op |-> op, key_id |-> k, user_id |-> u, val |-> val, code |-> code,
   key_bytes |-> data]

RestInit ==
  /\ rest_keys = <<>>
  /\ rnow = 0
  /\ rret = NoRestRet
  /\ rcalls = 0

\* a request is served
RestServe(r) ==
  /\ rcalls < MaxRestCalls
  /\ rcalls' = rcalls + 1
  /\ rret' = r

\* session.query(QuantumKey).filter(QuantumKey.key_id == key_id)
RestByKeyId(tbl, k) == {i \in DOMAIN tbl : tbl[i].key_id = k}

\* session.query(QuantumKey).filter(key_id == key_id, created_for == user_id)
RestByKeyIdAndUser(tbl, k, u) ==
  {i \in DOMAIN tbl : tbl[i].key_id = k /\ tbl[i].created_for = u}

\* POST /keys -> QuantumKeyService.generate_quantum_key(user_id, key_length)
rest_generate_key(u, key_length, data) ==
  /\ Len(rest_keys) < MaxRestKeys
  /\ IF key_length < RestMinKeyLength \/ key_length > RestMaxKeyLength
     THEN /\ rest_keys' = rest_keys
          /\ RestServe(RestRet("generate", RestMissingId, u, "error", 400, None))
     ELSE LET key_id == RestKeyId(u, rnow, key_length)
          IN  IF RestByKeyId(rest_keys, key_id) # {}
              THEN \* the primary key rejects the INSERT: SQLAlchemyError
                   /\ rest_keys' = rest_keys
                   /\ RestServe(RestRet("generate", key_id, u, "raise", 500, None))
              ELSE /\ rest_keys' = Append(rest_keys,
                         [key_id |-> key_id, key_bytes |-> data,
                          key_length |-> key_length, status |-> "unused",
                          timestamp |-> rnow, created_for |-> u,
                          used_by |-> "", used_at |-> -1])
                   /\ RestServe(RestRet("generate", key_id, u, "unused", 201, None))
  /\ UNCHANGED rnow
  /\ UNCHANGED exceptRest

\* GET /keys/<key_id> -> QuantumKeyService.get_quantum_key(key_id, user_id)
rest_fetch_key(k, u) ==
  /\ LET found == RestByKeyIdAndUser(rest_keys, k, u)
     IN  IF found = {}
         THEN RestServe(RestRet("fetch", k, u, "None", 404, None))
         ELSE LET row == rest_keys[MinOf(found)]
              IN  IF row.status = "used"
                  THEN RestServe(RestRet("fetch", k, u, "used", 410, None))
                  ELSE RestServe(RestRet("fetch", k, u, "dict", 200, row.key_bytes))
  /\ UNCHANGED <<rest_keys, rnow>>
  /\ UNCHANGED exceptRest

\* QuantumKeyService.mark_key_used: the first row with the key id gets status
\* 'used', used_by and used_at, whatever its status was (lines 109-120)
MarkedRows(tbl, k, used_by, t) ==
  [i \in DOMAIN tbl |->
     IF RestByKeyId(tbl, k) # {} /\ i = MinOf(RestByKeyId(tbl, k))
     THEN [tbl[i] EXCEPT !.status = "used", !.used_by = used_by, !.used_at = t]
     ELSE tbl[i]]

\* PATCH /keys/<key_id>/use -> QuantumKeyService.mark_key_used(key_id, used_by)
rest_mark_key_as_used(k, u) ==
  /\ rest_keys' = MarkedRows(rest_keys, k, u, rnow)
  /\ IF RestByKeyId(rest_keys, k) = {}
     THEN RestServe(RestRet("mark_key_used", k, u, "False", 404, None))
     ELSE RestServe(RestRet("mark_key_used", k, u, "True", 200, None))
  /\ UNCHANGED rnow
  /\ UNCHANGED exceptRest

\* GET /keys/<key_id>/hash: the SHA-256 of the key bytes, as the bytes it is
\* computed from
rest_fetch_key_hash(k) ==
  /\ LET found == RestByKeyId(rest_keys, k)
     IN  IF found = {}
         THEN RestServe(RestRet("hash", k, "", "None", 404, None))
         ELSE RestServe(RestRet("hash", k, "", "hash", 200,
                                rest_keys[MinOf(found)].key_bytes))
  /\ UNCHANGED <<rest_keys, rnow>>
  /\ UNCHANGED exceptRest

\* the wall clock advances
RestTick ==
  /\ rnow < MaxRestTime
  /\ rnow' = rnow + 1
  /\ rret' = NoRestRet
  /\ UNCHANGED <<rest_keys, rcalls>>
  /\ UNCHANGED exceptRest

RestNext ==
  \/ RestTick
  \/ \E u \in Users, len \in RestLengths, data \in KeyData : rest_generate_key(u, len, data)
  \/ \E k \in RestRequestIds, u \in Users : rest_fetch_key(k, u)
  \/ \E k \in RestRequestIds, u \in Users : rest_mark_key_as_used(k, u)
  \/ \E k \in RestRequestIds : rest_fetch_key_hash(k)

\* =========================================================================
\*  Specifications
\* =========================================================================
vars == <<cipherVars, neonVars, localVars, restVars, genVars, sendVars>>

\* the cipher is not in use
CipherIdle ==
  /\ message = <<>>
  /\ key = <<>>
  /\ encrypted = None
  /\ decrypted = None
  /\ cpc = "off"
  /\ other_key = <<>>
  /\ other_out = None

\* the entropy generator is not in use
GenIdle ==
  /\ length_bytes = 0
  /\ protocol = ""
  /\ max_attempts = 0
  /\ entropy = <<>>
  /\ generated = None
  /\ gpc = "off"

\* no send request is in progress
SendIdle ==
  /\ wpc = "idle"
  /\ wf = NoRequest
  /\ outbox = <<>>
  /\ wresp = ""
  /\ sent_emails = None
  /\ ipfs = None
  /\ shown = NoShown

\* the components a specification does not drive
OthersIdle == GenIdle /\ SendIdle

CipherSpecInit == CipherInit /\ NeonInit /\ LocalIdle /\ RestInit /\ OthersIdle

NeonSpecInit == NeonInit /\ CipherIdle /\ LocalIdle /\ RestInit /\ OthersIdle

LocalSpecInit == LocalInit /\ CipherIdle /\ NeonInit /\ RestInit /\ OthersIdle

RestSpecInit == RestInit /\ CipherIdle /\ NeonInit /\ LocalIdle /\ OthersIdle

GenSpecInit ==
  GenInit /\ CipherIdle /\ NeonInit /\ LocalIdle /\ RestInit /\ SendIdle

SpecCipher == CipherSpecInit /\ [][CipherNext]_vars

TwoKeysSpecInit == TwoKeysInit /\ NeonInit /\ LocalIdle /\ RestInit /\ OthersIdle

SpecTwoKeys == TwoKeysSpecInit /\ [][TwoKeysNext]_vars

SpecNeon == NeonSpecInit /\ [][NeonNext]_vars

SpecNeonLengths == NeonSpecInit /\ [][NeonLengthsNext]_vars

SpecSend == NeonSpecInit /\ [][SendNext]_vars

SpecNeonConcurrent == NeonSpecInit /\ [][NeonConcurrentNext]_vars

SpecLocal == LocalSpecInit /\ [][LocalNext]_vars

ListingSpecInit == ListingInit /\ CipherIdle /\ LocalIdle /\ RestInit /\ OthersIdle

SpecListing == ListingSpecInit /\ [][ListingNext]_vars

\* the Neon store's writing calls on a table that already holds a shared key
HeldSpecInit == HeldInit /\ CipherIdle /\ LocalIdle /\ RestInit /\ OthersIdle

SpecHeld == HeldSpecInit /\ [][HeldNext]_vars

\* the delete endpoint on a table that already holds a shared key
SpecDeleteEndpoint == HeldSpecInit /\ [][DeleteEndpointNext]_vars

SpecRest == RestSpecInit /\ [][RestNext]_vars

SpecGenerator == GenSpecInit /\ [][GenNext]_vars

\* the two key stores with a used status, each run on its own: the REST
\* service is driven only while the embedded store is untouched and empty,
\* the embedded store only while the REST service is untouched
StatusStoresInit == RestInit /\ LocalInit /\ CipherIdle /\ NeonInit /\ OthersIdle

StatusStoresNext ==
  \/ LocalIdle /\ RestNext
  \/ RestInit /\ LocalNext

SpecStatusStores == StatusStoresInit /\ [][StatusStoresNext]_vars

\* the two stores with an expiry sweep, each run on its own
SweepStoresInit == NeonInit /\ LocalInit /\ CipherIdle /\ RestInit /\ OthersIdle

SweepStoresNext ==
  \/ LocalIdle /\ NeonNext
  \/ NeonInit /\ LocalNext

SpecSweepStores == SweepStoresInit /\ [][SweepStoresNext]_vars

\* =========================================================================
\*  Properties
\* =========================================================================

\* C1: for every text message and every key of at least one byte, decrypting
\* the encryption of the message under the same key gives the message back,
\* whether the key is shorter than, as long as, or longer than the encoded
\* message.
RoundTrip ==
  (cpc = "decrypted" /\ Len(key) >= 1) => decrypted = message

\* a key shorter than the encoded message has been stretched and the message
\* has come back
RoundTripShortKey ==
  /\ cpc = "decrypted"
  /\ Len(key) >= 1
  /\ Len(key) < Len(Utf8Encode(message))
  /\ decrypted = message

\* is the row (k, u) present, active and not past expires_at at time t
Usable(tbl, k, u, t) ==
  \E i \in RowsOf(tbl, k, u) : tbl[i].is_active /\ ~(t > tbl[i].expires_at)

\* C2: on a store whose table was created by NeonKeyManager itself, after a
\* key was generated for owner A and shared with B, the share reports success
\* and get_key(k, B) returns the key material of A's row.
ScenarioA ==
  (/\ nret.op = "share"
   /\ primary_key = PK_KEY_ID
   /\ Usable(quantum_keys, nret.key_id, nret.user_id, now))
  => /\ nret.val = "True"
     /\ GetKeyOutcome(quantum_keys, nret.key_id, nret.other, now)
          = GetKeyOutcome(quantum_keys, nret.key_id, nret.user_id, now)

\* C3: on a table keyed by (key_id, user_id), a share towards a holder who
\* already has a row for the key returns True and changes nothing, so one row
\* (k, B) remains, as the first share wrote it.
SharingIdempotence ==
  [][\A k \in KeyIds, a \in Users, b \in Users :
       (/\ nret'.op = "share" /\ nret'.key_id = k
        /\ nret'.user_id = a /\ nret'.other = b
        /\ primary_key = PK_KEY_ID_USER_ID
        /\ SelectActive(quantum_keys, k, a) # {}
        /\ RowsOf(quantum_keys, k, b) # {})
       => /\ nret'.val = "True"
          /\ quantum_keys' = quantum_keys
          /\ Cardinality(RowsOf(quantum_keys', k, b)) = 1]_vars

\* a second share towards another holder has returned True without inserting
SecondShareDone ==
  /\ nret.op = "share" /\ nret.val = "True" /\ nret.count = 0
  /\ nret.user_id # nret.other
  /\ primary_key = PK_KEY_ID_USER_ID
  /\ Cardinality(RowsOf(quantum_keys, nret.key_id, nret.other)) = 1

\* C4: on a table keyed by (key_id, user_id), under every interleaving of
\* concurrent shares, a share whose owner row is active returns True, and the
\* table never holds more than one row (k, B): exactly one once it returned.
ConcurrentShare ==
  /\ primary_key = PK_KEY_ID_USER_ID =>
       \A k \in KeyIds, b \in Users : Cardinality(RowsOf(quantum_keys, k, b)) <= 1
  /\ (/\ nret.op = "share"
      /\ primary_key = PK_KEY_ID_USER_ID
      /\ SelectActive(quantum_keys, nret.key_id, nret.user_id) # {})
     => /\ nret.val = "True"
        /\ Cardinality(RowsOf(quantum_keys, nret.key_id, nret.other)) = 1

\* one share has committed its row while a second share of the same key to
\* the same recipient, which read the owner row earlier, is about to insert
SharesOverlap ==
  /\ nret.op = "share" /\ nret.val = "True" /\ nret.count = 1
  /\ \E q \in Callers :
       /\ q # nret.caller
       /\ npc[q] = "share_insert"
       /\ nloc[q].key_id = nret.key_id
       /\ nloc[q].user_id = nret.user_id
       /\ nloc[q].other = nret.other

\* C5: get_key goes on to return material only when the row (k, h) exists, is
\* active and is not past expires_at at that time; material is returned only
\* by such a call; and a row that is past expires_at stays so.
UsableRowRule ==
  [][/\ \A p \in Callers :
          (npc[p] = "idle" /\ npc'[p] = "get_update")
          => Usable(quantum_keys, nloc'[p].key_id, nloc'[p].user_id, now)
     /\ (nret'.op = "get_key" /\ nret'.key_data # None)
          => npc[nret'.caller] = "get_update"
     /\ \A i \in DOMAIN quantum_keys :
          now > quantum_keys[i].expires_at
          => /\ i \in DOMAIN quantum_keys'
             /\ now' > quantum_keys'[i].expires_at]_vars

\* get_key has returned None for a row that is still flagged active but is
\* past expires_at
ExpiredNotReturned ==
  /\ nret.op = "get_key" /\ nret.val = "None"
  /\ \E i \in RowsOf(quantum_keys, nret.key_id, nret.user_id) :
       quantum_keys[i].is_active /\ now > quantum_keys[i].expires_at

\* C6: reading a message (view_email, get_email) never obtains key material
\* from a row that is inactive or past expires_at.
NoMaterialForUnusableKey ==
  (nret.op \in {"view_email", "get_email"} /\ nret.key_data # None)
  => Usable(quantum_keys, nret.key_id, nret.user_id, now)

\* C8: for a row that is the only row with its key_id, usage_count equals the
\* number of get_key calls that returned its material, under every
\* interleaving of the calls.
AtomicUsageCount ==
  \A k \in KeyIds :
    LET rows == {i \in DOMAIN quantum_keys : quantum_keys[i].key_id = k}
    IN  Cardinality(rows) = 1 =>
          \A i \in rows : quantum_keys[i].usage_count = fetched[k]

\* a get_key that read the row before a concurrent get_key updated it has
\* returned, and the row counts both
ConcurrentFetchesCounted ==
  /\ nret.op = "get_key" /\ nret.val = "dict"
  /\ LET rows == {i \in DOMAIN quantum_keys : quantum_keys[i].key_id = nret.key_id}
     IN  /\ Cardinality(rows) = 1
         /\ \A i \in rows : /\ quantum_keys[i].usage_count = fetched[nret.key_id]
                            /\ nret.count < quantum_keys[i].usage_count

\* C9: no two rows of quantum_keys have the same (key_id, user_id).
CompositeIdentity ==
  \A i \in DOMAIN quantum_keys, j \in DOMAIN quantum_keys :
    (quantum_keys[i].key_id = quantum_keys[j].key_id
       /\ quantum_keys[i].user_id = quantum_keys[j].user_id) => i = j

\* a key is held by two holders and a further share of it has returned
SharedKeyTwoHolders ==
  /\ nret.op = "share" /\ nret.val = "True" /\ nret.count = 0
  /\ \E i \in DOMAIN quantum_keys, j \in DOMAIN quantum_keys :
       /\ i # j
       /\ quantum_keys[i].key_id = quantum_keys[j].key_id
       /\ quantum_keys[i].user_id # quantum_keys[j].user_id

RowStateMachine ==
  [][\A i \in DOMAIN local_keys :
       /\ i \in DOMAIN local_keys'
       /\ local_keys'[i].key_id = local_keys[i].key_id
       /\ local_keys'[i].status # local_keys[i].status
          => /\ local_keys[i].status = "unused"
             /\ \/ local_keys'[i].status = "used" /\ lret'.op = "mark_key_used"
                \/ local_keys'[i].status = "expired"
                     /\ lret'.op \in {"get_quantum_key", "cleanup"}]_vars

\* get_quantum_key has run on a used key that is past its expiry time and
\* left it used
UsedKeyStaysUsed ==
  /\ lret.op = "get_quantum_key" /\ lret.val = "None"
  /\ \E i \in DOMAIN local_keys :
       /\ local_keys[i].key_id = lret.key_id
       /\ local_keys[i].created_for = lret.user_id
       /\ local_keys[i].status = "used"
       /\ clock > local_keys[i].expiry_time

\* C11: in the REST key service mark_key_used returns False for a key that is
\* missing or already used and then leaves the row's status, used_by and
\* used_at as they were; it returns True only when it moves the row from
\* unused to used.
MarkUsedAtMostOnce ==
  [][rret'.op = "mark_key_used" =>
       LET found == RestByKeyId(rest_keys, rret'.key_id)
           wasUnused == found # {} /\ rest_keys[MinOf(found)].status = "unused"
       IN  /\ ~wasUnused => rret'.val = "False" /\ rest_keys' = rest_keys
           /\ rret'.val = "True" =>
                 /\ wasUnused
                 /\ rest_keys'[MinOf(found)].status = "used"]_vars

\* C17: generate_key_with_verification never raises: for every length,
\* protocol tag and max_attempts it returns a (bytes, metadata) pair, with
\* verification_passed = False when no attempt passed the checks.
GeneratorNeverRaises ==
  gpc = "done" => generated # Raise

\* C12: a used key is never handed out again: a used row stays used, and a
\* fetch of a key whose row is used returns no key material (REST service: an
\* error status and no key_bytes; embedded store: None).
UsedKeyNeverHandedOut ==
  [][/\ \A i \in DOMAIN rest_keys :
          rest_keys[i].status = "used" => rest_keys'[i].status = "used"
     /\ \A i \in DOMAIN local_keys :
          local_keys[i].status = "used" => local_keys'[i].status = "used"
     /\ (/\ rret'.op = "fetch"
         /\ \E i \in DOMAIN rest_keys :
              rest_keys[i].key_id = rret'.key_id /\ rest_keys[i].status = "used")
        => rret'.key_bytes = None /\ rret'.code >= 400
     /\ (/\ lret'.op = "get_quantum_key"
         /\ \E i \in DOMAIN local_keys :
              local_keys[i].key_id = lret'.key_id /\ local_keys[i].status = "used")
        => lret'.key_bytes = None /\ lret'.val = "None"]_vars

\* the owner of a key has fetched it from the REST service after it was
\* marked used, and was refused
UsedKeyFetchRefused ==
  /\ rret.op = "fetch" /\ rret.code = 410
  /\ \E i \in DOMAIN rest_keys :
       /\ rest_keys[i].key_id = rret.key_id
       /\ rest_keys[i].created_for = rret.user_id
       /\ rest_keys[i].status = "used"

\* C13: delete_key(k, A) sets is_active to false on the row (k, A) only: every
\* other row, the rows (k, B) of other holders among them, is left as it was
\* (and so stays fetchable), and no operation removes a row from quantum_keys.
SoftScopedDelete ==
  [][/\ \A i \in DOMAIN quantum_keys :
          /\ i \in DOMAIN quantum_keys'
          /\ quantum_keys'[i].key_id = quantum_keys[i].key_id
          /\ quantum_keys'[i].user_id = quantum_keys[i].user_id
     /\ nret'.op = "delete_key" =>
          /\ DOMAIN quantum_keys' = DOMAIN quantum_keys
          /\ \A i \in DOMAIN quantum_keys :
               IF /\ quantum_keys[i].key_id = nret'.key_id
                  /\ quantum_keys[i].user_id = nret'.user_id
               THEN quantum_keys'[i] = [quantum_keys[i] EXCEPT !.is_active = FALSE]
               ELSE quantum_keys'[i] = quantum_keys[i]]_vars

\* a holder has deleted a shared key and the other holder's row is still
\* active
DeleteLeftOtherHolder ==
  /\ nret.op = "delete_key" /\ nret.val = "True"
  /\ \E i, j \in DOMAIN quantum_keys :
       /\ quantum_keys[i].key_id = nret.key_id
       /\ quantum_keys[i].user_id = nret.user_id
       /\ ~quantum_keys[i].is_active
       /\ quantum_keys[j].key_id = nret.key_id
       /\ quantum_keys[j].user_id # nret.user_id
       /\ quantum_keys[j].is_active

\* C14: get_user_keys(h, include_expired=False) returns exactly the rows of
\* holder h that are active and not past expires_at, each once, never an
\* inactive or expired row or another holder's row, ordered by created_at from
\* newest to oldest.
ListingFilter ==
  (nret.op = "get_user_keys" /\ nret.val = "usable") =>
    LET listed == nret.keys
        usable == {i \in DOMAIN quantum_keys :
                     /\ quantum_keys[i].user_id = nret.user_id
                     /\ quantum_keys[i].is_active
                     /\ now < quantum_keys[i].expires_at}
    IN  /\ \A n \in DOMAIN listed :
             /\ listed[n].user_id = nret.user_id
             /\ listed[n].is_active
             /\ now < listed[n].expires_at
             /\ \E i \in usable : quantum_keys[i].key_id = listed[n].key_id
        /\ \A i \in usable :
             \E n \in DOMAIN listed : listed[n].key_id = quantum_keys[i].key_id
        /\ Len(listed) = Cardinality(usable)
        /\ \A n \in DOMAIN listed :
             n > 1 => listed[n - 1].created_at >= listed[n].created_at

\* the listing was taken while the holder had two usable rows of different
\* age and a row that is inactive or expired, and returned only the former
ListingLeftRowsOut ==
  /\ nret.op = "get_user_keys" /\ nret.val = "usable"
  /\ Len(nret.keys) >= 2
  /\ nret.keys[1].created_at > nret.keys[2].created_at
  /\ \E i \in DOMAIN quantum_keys :
       /\ quantum_keys[i].user_id = nret.user_id
       /\ (~quantum_keys[i].is_active \/ now >= quantum_keys[i].expires_at)

\* C15: cleanup_expired_keys flips exactly the rows that are active (Neon) or
\* unused (embedded store) and whose expiry time is in the past to inactive or
\* expired, changes no other row, returns the number of rows it changed, and
\* leaves no row that is both usable-flagged and past its expiry time.
SweepFlipsExpired ==
  [][/\ (ncalls' # ncalls /\ nret'.op = "cleanup") =>
          LET due == {i \in DOMAIN quantum_keys :
                        quantum_keys[i].is_active /\ quantum_keys[i].expires_at < now}
          IN  /\ DOMAIN quantum_keys' = DOMAIN quantum_keys
              /\ \A i \in DOMAIN quantum_keys :
                   quantum_keys'[i] = IF i \in due
                                      THEN [quantum_keys[i] EXCEPT !.is_active = FALSE]
                                      ELSE quantum_keys[i]
              /\ nret'.count = Cardinality(due)
              /\ \A i \in DOMAIN quantum_keys' :
                   ~(quantum_keys'[i].is_active /\ quantum_keys'[i].expires_at < now')
     /\ (lcalls' # lcalls /\ lret'.op = "cleanup") =>
          LET due == {i \in DOMAIN local_keys :
                        local_keys[i].status = "unused" /\ local_keys[i].expiry_time < clock}
          IN  /\ DOMAIN local_keys' = DOMAIN local_keys
              /\ \A i \in DOMAIN local_keys :
                   local_keys'[i] = IF i \in due
                                    THEN [local_keys[i] EXCEPT !.status = "expired"]
                                    ELSE local_keys[i]
              /\ lret'.count = Cardinality(due)
              /\ \A i \in DOMAIN local_keys' :
                   ~(local_keys'[i].status = "unused"
                     /\ local_keys'[i].expiry_time < clock')]_vars

\* a sweep of the Neon store has returned after flipping a row that was
\* active and past expires_at
SweepFlippedARow ==
  /\ nret.op = "cleanup" /\ nret.count >= 1
  /\ \E i \in DOMAIN quantum_keys :
       ~quantum_keys[i].is_active /\ quantum_keys[i].expires_at < now

\* C16: every key-generating entry point rejects a requested length outside
\* [MIN_KEY_LENGTH, MAX_KEY_LENGTH] and stores nothing, so that every stored
\* row has a key_length within these limits and of at least 1.
StoredLengthsValidated ==
  /\ \A i \in DOMAIN quantum_keys :
       /\ quantum_keys[i].key_length >= MIN_KEY_LENGTH
       /\ quantum_keys[i].key_length <= MAX_KEY_LENGTH
       /\ quantum_keys[i].key_length >= 1
  /\ (/\ nret.op = "generate"
      /\ (nret.count < MIN_KEY_LENGTH \/ nret.count > MAX_KEY_LENGTH))
     => nret.val = "raise"

\* C18: for a key id and a caller who holds no row for it, the fetch,
\* mark-used and hash endpoints answer and change the table exactly as they
\* do for a key id that does not exist: not found, no material, no change.
NoExistenceLeak ==
  [][(/\ rcalls' # rcalls
      /\ rret'.op \in {"fetch", "mark_key_used", "hash"}
      /\ \A i \in DOMAIN rest_keys :
           ~(rest_keys[i].key_id = rret'.key_id
             /\ rest_keys[i].created_for = rret'.user_id))
     => (/\ rret'.code = 404
         /\ rret'.key_bytes = None
         /\ rest_keys' = rest_keys)]_vars

FailedShareSurfaced ==
  (wpc \in {"done", "read"} /\ wresp = "sent") =>
    \E i \in DOMAIN quantum_keys :
      quantum_keys[i].key_id = wf.key_id /\ quantum_keys[i].user_id = wf.recipient

\* C21: when the database rejects a statement of share_key_with_recipient,
\* the call returns an outcome that is neither the one it returns for an owner
\* row that is missing or inactive (False) nor success (True).
StorageErrorSurfaced ==
  [][\A p \in Callers :
       (/\ npc[p] = "share_insert"
        /\ npc'[p] = "idle"
        /\ nret'.op = "share" /\ nret'.caller = p
        /\ ShareInsertOutcome(quantum_keys, pending, p, SharedRow(nloc[p], now),
                              primary_key) = "raise")
       => nret'.val \notin {"False", "True"}]_vars

\* C22: decrypting a ciphertext with a non-empty key other than the one it
\* was encrypted with completes without an exception and yields output as
\* long as the ciphertext.
WrongKeyNeverRaises ==
  (cpc = "decrypted_other" /\ Len(other_key) >= 1 /\ other_key # key) =>
    /\ decrypted # Raise
    /\ Len(decrypted) = Len(encrypted)

\* C23: for every message and non-empty key, byte i of the ciphertext is
\* message byte i XOR key byte (i mod len(key)) and the ciphertext is as long
\* as the encoded message, for keys shorter and longer than the message;
\* decrypt_message uses the same key bytes.
StretchPolicy ==
  (cpc \in {"encrypted", "decrypted"} /\ Len(key) >= 1) =>
    LET message_bytes == Utf8Encode(message)
        key_byte(i) == key[((i - 1) % Len(key)) + 1]
    IN  /\ encrypted # Raise
        /\ Len(encrypted) = Len(message_bytes)
        /\ \A i \in 1..Len(message_bytes) :
             encrypted[i] = Xor(message_bytes[i], key_byte(i))
        /\ cpc = "decrypted" =>
             decrypted = Utf8Decode([i \in 1..Len(encrypted) |->
                                       Xor(encrypted[i], key_byte(i))])

\* a two-byte key has wrapped around on a three-byte message, and the
\* ciphertext has been decrypted
KeyWrappedAround ==
  /\ cpc = "decrypted"
  /\ Len(key) = 2 /\ key[1] # key[2]
  /\ Len(encrypted) = 3

\* C24: for every message and every two different keys that are both shorter
\* than the message, the two ciphertexts differ.
DistinctKeysDistinctCiphertexts ==
  (/\ cpc = "encrypted_twice"
   /\ key # other_key
   /\ Len(key) >= 1 /\ Len(other_key) >= 1
   /\ Len(key) < Len(Utf8Encode(message))
   /\ Len(other_key) < Len(Utf8Encode(message)))
  => encrypted # other_out

\* C24, amended: for two different non-empty keys both shorter than the
\* message, the ciphertexts differ exactly when the keys, cyclically repeated
\* to the length of the message, differ.
DistinctStretchedKeysDistinctCiphertexts ==
  (/\ cpc = "encrypted_twice"
   /\ key # other_key
   /\ Len(key) >= 1 /\ Len(other_key) >= 1
   /\ Len(key) < Len(Utf8Encode(message))
   /\ Len(other_key) < Len(Utf8Encode(message)))
  => LET n == Len(Utf8Encode(message))
     IN  (encrypted # other_out) <=>
           ([i \in 1..n |-> key[((i - 1) % Len(key)) + 1]]
              # [i \in 1..n |-> other_key[((i - 1) % Len(other_key)) + 1]])

\* two different keys, both shorter than the message, have given different
\* ciphertexts
ShortKeysGaveDifferentCiphertexts ==
  /\ cpc = "encrypted_twice"
  /\ key # other_key
  /\ Len(key) >= 1 /\ Len(other_key) >= 1
  /\ Len(key) < Len(Utf8Encode(message))
  /\ Len(other_key) < Len(Utf8Encode(message))
  /\ encrypted # other_out

\* C25: when get_key(k, h) finds the row (k, h) past its expires_at, it
\* returns no material and leaves that row inactive.
LazyExpiryFlip ==
  (nret.op = "get_key" /\ nret.val = "None") =>
    \A i \in RowsOf(quantum_keys, nret.key_id, nret.user_id) :
      now > quantum_keys[i].expires_at => ~quantum_keys[i].is_active

\* C26: a row's usage_count changes only by a successful get_key of that
\* very row (its key id and its holder), which adds one; the rows of other
\* holders and inactive rows keep their count.
PerRowUsage ==
  [][\A i \in DOMAIN quantum_keys :
       quantum_keys'[i].usage_count # quantum_keys[i].usage_count =>
         /\ nret'.op = "get_key" /\ nret'.val = "dict"
         /\ quantum_keys[i].key_id = nret'.key_id
         /\ quantum_keys[i].user_id = nret'.user_id
         /\ quantum_keys[i].is_active
         /\ quantum_keys'[i].usage_count = quantum_keys[i].usage_count + 1]_vars

\* C27: a generate call of the REST key service never fails because its key
\* id is already stored, also when it follows a call for the same user and
\* key length at the same clock instant; stored key ids are pairwise
\* different.
FreshKeyId ==
  /\ rret.op = "generate" => rret.val # "raise"
  /\ \A i, j \in DOMAIN rest_keys :
       rest_keys[i].key_id = rest_keys[j].key_id => i = j

\* C28: when the sender reads a stored message (get_email, view_email), the
\* trial decoding of the ciphertext text the send path stored, base64 in the
\* database or hexadecimal on IPFS, presents the original plaintext.
TrialDecodingIsRight ==
  (wpc = "read" /\ shown.text # None) => shown.text = wf.content

\* some row of the table is held by user u for key k, and none of them is active
Deactivated(tbl, k, u) ==
  /\ RowsOf(tbl, k, u) # {}
  /\ \A i \in RowsOf(tbl, k, u) : ~tbl[i].is_active

\* C29: in the Neon store a holder's key that has been deactivated (by
\* delete_key or cleanup_expired_keys) stays deactivated in every later step;
\* a share_key_with_recipient(k, A, B) that runs to its commit while B's row
\* for k is inactive reports True and leaves the table as it was.
DeactivationIsPermanent ==
  [][/\ \A k \in KeyIds, u \in Users :
         Deactivated(quantum_keys, k, u) => Deactivated(quantum_keys', k, u)
     /\ (/\ npc[1] = "share_commit" /\ npc'[1] = "idle"
         /\ Deactivated(quantum_keys, nloc[1].key_id, nloc[1].other))
        => (nret'.op = "share" /\ nret'.val = "True" /\ quantum_keys' = quantum_keys)]_vars

\* a share towards a holder whose row is inactive has just reported True
SharedTowardsInactiveHolder ==
  /\ nret.op = "share"
  /\ nret.val = "True"
  /\ nret.user_id # nret.other
  /\ Deactivated(quantum_keys, nret.key_id, nret.other)

\* C30: DELETE /api/key/<key_id> answers with an error only if the caller's
\* row for the key was left unchanged, and answers with success whenever the
\* call deactivated the caller's row.
DeleteEndpointReportsWhatHappened ==
  [][nret'.op = "delete_key_endpoint" =>
       LET mine == RowsOf(quantum_keys, nret'.key_id, nret'.user_id)
       IN  /\ nret'.val # "200" => \A i \in mine : quantum_keys'[i] = quantum_keys[i]
           /\ (\E i \in mine : quantum_keys[i].is_active /\ ~quantum_keys'[i].is_active)
                => nret'.val = "200"]_vars

====
